---------------------------- MODULE Spec2Model ----------------------------
(* A model of flowzero-orders-cli (src/main.py): the order ledger, the     *)
(* paginated catalogue search, the scene selection, the date-range chunker *)
(* and the week-bucket rule.                                                *)
EXTENDS Integers, Sequences, FiniteSets, TLC

VARIABLES
    cStart, cEnd, cMonths, cCur, cChunks, cPc,   \* subdivide_date_range
    wDate, wSelKey, wFetchKey, wPc,              \* the two week rules
    sFeatures, sCadence, sCmd, sOut,             \* the selection step
    fetch, fResps,                               \* fetch_all_search_results
    ledger, accepted, nextId,                    \* orders.json, the order endpoint
    last, batch,                                 \* the last command, batch_submit
    bIn, bCmd, bOut,                             \* bundle resolution of one command
    store, events, check,                        \* the destination, the status commands
    logFile, writers                             \* orders.json under two log_order calls

chunkVars == <<cStart, cEnd, cMonths, cCur, cChunks, cPc>>
weekVars == <<wDate, wSelKey, wFetchKey, wPc>>
selVars == <<sFeatures, sCadence, sCmd, sOut>>
fetchVars == <<fetch, fResps>>
orderVars == <<ledger, accepted, nextId, last, batch>>
bundleVars == <<bIn, bCmd, bOut>>
statusVars == <<store, events, check>>
logVars == <<logFile, writers>>
vars == <<chunkVars, weekVars, selVars, fetchVars, orderVars, bundleVars, statusVars,
          logVars>>

(***************************************************************************)
(* Calendar arithmetic, as datetime / timedelta / relativedelta compute it. *)
(* A datetime at midnight is <<year, month, day>>.                          *)
(***************************************************************************)

IsLeap(y) == (y % 4 = 0) /\ ((y % 100 # 0) \/ (y % 400 = 0))

DaysInMonth(y, m) ==
    IF m = 2 THEN (IF IsLeap(y) THEN 29 ELSE 28)
    ELSE IF m \in {4, 6, 9, 11} THEN 30 ELSE 31

DaysBeforeYear(y) ==
    (y - 1) * 365 + ((y - 1) \div 4) - ((y - 1) \div 100) + ((y - 1) \div 400)

RECURSIVE DaysBeforeMonth(_, _)
DaysBeforeMonth(y, m) ==
    IF m = 1 THEN 0 ELSE DaysBeforeMonth(y, m - 1) + DaysInMonth(y, m - 1)

\* datetime.toordinal(): 0001-01-01 is day 1
ToOrdinal(dt) == DaysBeforeYear(dt[1]) + DaysBeforeMonth(dt[1], dt[2]) + dt[3]

\* datetime.fromordinal(), by the 400/100/4/1-year cycles of _ord2ymd
FromOrdinal(n) ==
    LET n0 == n - 1
        n400 == n0 \div 146097
        r400 == n0 % 146097
        n100 == r400 \div 36524
        r100 == r400 % 36524
        n4 == r100 \div 1461
        r4 == r100 % 1461
        n1 == r4 \div 365
        r1 == r4 % 365
        year == n400 * 400 + 1 + n100 * 100 + n4 * 4 + n1
    IN  IF n1 = 4 \/ n100 = 4
        THEN <<year - 1, 12, 31>>
        ELSE LET month == CHOOSE m \in 1..12 :
                              /\ DaysBeforeMonth(year, m) <= r1
                              /\ r1 < DaysBeforeMonth(year, m) + DaysInMonth(year, m)
             IN  <<year, month, r1 - DaysBeforeMonth(year, month) + 1>>

\* datetime.weekday(): Monday is 0, Sunday is 6
Weekday(dt) == (ToOrdinal(dt) + 6) % 7

\* dt + timedelta(days=k)
AddDays(dt, k) == FromOrdinal(ToOrdinal(dt) + k)

\* dt + relativedelta(months=n): |n| > 11 is carried into years, the month
\* wraps once, and the day is clipped to the length of the target month
AddMonths(dt, n) ==
    LET s == IF n < 0 THEN -1 ELSE 1
        years == IF n * s > 11 THEN s * ((n * s) \div 12) ELSE 0
        months == IF n * s > 11 THEN s * ((n * s) % 12) ELSE n
        y0 == dt[1] + years
        m0 == dt[2] + months
        y1 == IF m0 > 12 THEN y0 + 1 ELSE IF m0 < 1 THEN y0 - 1 ELSE y0
        m1 == IF m0 > 12 THEN m0 - 12 ELSE IF m0 < 1 THEN m0 + 12 ELSE m0
        d1 == IF DaysInMonth(y1, m1) < dt[3] THEN DaysInMonth(y1, m1) ELSE dt[3]
    IN  <<y1, m1, d1>>

\* datetime comparison
DateLE(a, b) == ToOrdinal(a) <= ToOrdinal(b)
DateLT(a, b) == ToOrdinal(a) < ToOrdinal(b)

(***************************************************************************)
(* Date strings.  A formatted date is <<separator, year, month, day>>: the  *)
(* zero-padded fields joined by the separator of the format.                *)
(***************************************************************************)

\* dt.strftime("%Y-%m-%d")
StrftimeDash(dt) == <<"-", dt[1], dt[2], dt[3]>>

\* dt.strftime("%Y_%m_%d")
StrftimeUnderscore(dt) == <<"_", dt[1], dt[2], dt[3]>>

\* dt.strftime("%Y-%m")
StrftimeMonth(dt) == <<"-", dt[1], dt[2]>>

\* datetime.strptime(s, "%Y-%m-%d")
StrptimeDash(s) == <<s[2], s[3], s[4]>>

\* datetime(*map(int, s.split('_')))
ParseUnderscore(s) == <<s[2], s[3], s[4]>>

IsDashDate(s) == Len(s) = 4 /\ s[1] = "-"
IsUnderscoreDate(s) == Len(s) = 4 /\ s[1] = "_"

(***************************************************************************)
(* subdivide_date_range: one action per loop iteration.                     *)
(***************************************************************************)

MaxSpan == 70
MaxMonths == 6

\* start dates: mid-month, month ends, the leap day, a year end
ChunkStarts ==
    { <<"-", 2020, 1, 15>>, <<"-", 2020, 1, 29>>, <<"-", 2020, 1, 30>>,
      <<"-", 2020, 1, 31>>, <<"-", 2020, 2, 1>>, <<"-", 2020, 2, 28>>,
      <<"-", 2020, 2, 29>>, <<"-", 2020, 3, 1>>, <<"-", 2019, 8, 31>>,
      <<"-", 2019, 12, 31>>, <<"-", 2020, 12, 1>>, <<"-", 2019, 3, 31>> }

\* range lengths in days: every short one, and some of half a year and more
ChunkSpans == (0..MaxSpan) \cup {181, 182, 183, 365, 366, 411}

\* lines 162-164: with a fixed 30-day month instead of calendar months
ChunkEndFixedDays(current_start, end_dt, max_months) ==
    LET chunk_end == AddDays(current_start, 30 * max_months - 1)
    IN  IF DateLT(end_dt, chunk_end) THEN end_dt ELSE chunk_end

\* lines 162-163 without the clipping of lines 163-164
ChunkEndUnclipped(current_start, end_dt, max_months) ==
    AddDays(AddMonths(current_start, max_months), -1)

\* lines 162-164: max_months calendar months less a day, clipped to the end
ChunkEnd(current_start, end_dt, max_months) ==
    LET chunk_end == AddDays(AddMonths(current_start, max_months), -1)
    IN  IF DateLT(end_dt, chunk_end) THEN end_dt ELSE chunk_end

\* line 172 without the day's step
NextStartSameDay(chunk_end) == chunk_end

\* line 172
NextStart(chunk_end) == AddDays(chunk_end, 1)

ChunkInit ==
    /\ cStart \in ChunkStarts
    /\ cEnd \in { StrftimeDash(AddDays(StrptimeDash(cStart), k)) : k \in ChunkSpans }
    /\ cMonths \in 1..MaxMonths
    /\ cCur = StrptimeDash(cStart)
    /\ cChunks = <<>>
    /\ cPc = "loop"

\* --max-months is type=int (line 1102): zero and negative values pass
MaxChunks == 4
MonthsOptionValues == {-2, -1, 0, 1, 2}

\* subdivide_date_range as batch_submit calls it (line 1159), whatever the
\* option holds
ChunkInitAnyMonths ==
    /\ cStart \in ChunkStarts
    /\ cEnd \in { StrftimeDash(AddDays(StrptimeDash(cStart), k)) : k \in ChunkSpans }
    /\ cMonths \in MonthsOptionValues
    /\ cCur = StrptimeDash(cStart)
    /\ cChunks = <<>>
    /\ cPc = "loop"

ChunkIdle ==
    /\ cStart = <<"-", 2020, 1, 15>>
    /\ cEnd = <<"-", 2020, 1, 15>>
    /\ cMonths = MaxMonths
    /\ cCur = <<2020, 1, 15>>
    /\ cChunks = <<>>
    /\ cPc = "idle"

\* lines 160-172: one iteration of the while loop
SubdivideIterate ==
    /\ cPc = "loop"
    /\ DateLE(cCur, StrptimeDash(cEnd))
    /\ LET chunk_end == ChunkEnd(cCur, StrptimeDash(cEnd), cMonths)
       IN  /\ cChunks' = Append(cChunks, <<StrftimeDash(cCur), StrftimeDash(chunk_end)>>)
           /\ cCur' = NextStart(chunk_end)
    /\ UNCHANGED <<cStart, cEnd, cMonths, cPc>>

\* lines 160, 174: the loop condition fails and the chunks are returned
SubdivideReturn ==
    /\ cPc = "loop"
    /\ ~DateLE(cCur, StrptimeDash(cEnd))
    /\ cPc' = "done"
    /\ UNCHANGED <<cStart, cEnd, cMonths, cCur, cChunks>>

(***************************************************************************)
(* The week rule, at selection time and at fetch time.                      *)
(***************************************************************************)

MaxWeekDays == 120

\* every day from 2023-12-20 on: a year end, a leap February, 2024-03-14
WeekDates == { AddDays(<<2023, 12, 20>>, k) : k \in 0..MaxWeekDays }

\* lines 227-234 (and 444-451, 1048-1055)
get_interval_key(cadence, date_obj) ==
    IF cadence = "daily" THEN StrftimeDash(date_obj)
    ELSE IF cadence = "weekly"
    THEN StrftimeDash(AddDays(date_obj,
             -(IF Weekday(date_obj) # 6 THEN Weekday(date_obj) + 1 ELSE 0)))
    ELSE StrftimeMonth(date_obj)

\* lines 131-139 with the week starting on Monday
get_week_start_date_monday(date_str) ==
    LET date_obj == ParseUnderscore(date_str)
    IN  StrftimeUnderscore(AddDays(date_obj, -Weekday(date_obj)))

\* lines 131-139
get_week_start_date(date_str) ==
    LET date_obj == ParseUnderscore(date_str)
        days_to_sunday == Weekday(date_obj) + 1
    IN  IF days_to_sunday = 7 THEN date_str
        ELSE StrftimeUnderscore(AddDays(date_obj, -days_to_sunday))

WeekInit ==
    /\ wDate \in WeekDates
    /\ wSelKey = <<>>
    /\ wFetchKey = <<>>
    /\ wPc = "run"

WeekIdle ==
    /\ wDate = <<2023, 12, 20>>
    /\ wSelKey = <<>>
    /\ wFetchKey = <<>>
    /\ wPc = "idle"

\* lines 246-248: the key of a scene acquired on wDate, weekly cadence
WeekAtSelection ==
    /\ wPc = "run"
    /\ wSelKey = <<>>
    /\ wSelKey' = get_interval_key("weekly", StrptimeDash(StrftimeDash(wDate)))
    /\ UNCHANGED <<wDate, wFetchKey, wPc>>

\* lines 629-633: the week of an artifact whose filename carries wDate
WeekAtFetch ==
    /\ wPc = "run"
    /\ wFetchKey = <<>>
    /\ wFetchKey' = get_week_start_date(StrftimeUnderscore(wDate))
    /\ UNCHANGED <<wDate, wSelKey, wPc>>


(***************************************************************************)
(* Scene selection.  A search result (feature) is [id, cov, acquired]: cov  *)
(* is the percentage of the AOI that the footprint covers (lines 240-242),  *)
(* acquired is the timestamp <<"-", year, month, day, time of day>>.        *)
(***************************************************************************)

MIN_COV_PCT == 98
MaxScenes == 3

SceneCovs == {MIN_COV_PCT - 1, MIN_COV_PCT, MIN_COV_PCT + 1}
\* a Saturday, the Sunday after it (a new week) and the Monday after that
\* (a new month)
SceneDays == { <<2024, 3, 30>>, <<2024, 3, 31>>, <<2024, 4, 1>> }
SceneTimes == {0, 1}
SceneAttrs == SceneCovs \X SceneDays \X SceneTimes

MkFeature(i, a) ==
    [id |-> i, cov |-> a[1], acquired |-> <<"-", a[2][1], a[2][2], a[2][3], a[3]>>]

\* the list of n features with the attributes a, ids in listing order
FeatureList(n, a) == [i \in 1..n |-> MkFeature(i, a[i])]

Cadences == {"daily", "weekly", "monthly"}

\* props["acquired"][:10]
AcquiredDate(f) == SubSeq(f.acquired, 1, 4)

\* lines 241-243, the test reversed: a scene at the threshold is dropped too
BelowThresholdOrAt(coverage_pct) == coverage_pct <= MIN_COV_PCT

\* lines 241-243
BelowThreshold(coverage_pct) == coverage_pct < MIN_COV_PCT

\* scene_groups[key].append(item): a dict keeps its keys in insertion order
GroupAppend(groups, key, item) ==
    IF \E i \in 1..Len(groups) : groups[i].key = key
    THEN [i \in 1..Len(groups) |->
             IF groups[i].key = key
             THEN [key |-> key, items |-> Append(groups[i].items, item)]
             ELSE groups[i]]
    ELSE Append(groups, [key |-> key, items |-> <<item>>])

\* lines 238-249: the loop over the features
RECURSIVE BuildGroups(_, _, _)
BuildGroups(features, cadence, groups) ==
    IF features = <<>> THEN groups
    ELSE LET feature == Head(features)
             coverage_pct == feature.cov
             date_obj == StrptimeDash(AcquiredDate(feature))
             key == get_interval_key(cadence, date_obj)
         IN  IF BelowThreshold(coverage_pct)
             THEN BuildGroups(Tail(features), cadence, groups)
             ELSE BuildGroups(Tail(features), cadence,
                      GroupAppend(groups, key, <<coverage_pct, date_obj, feature>>))

\* the sort key (-x[0], x[1]) of line 254, compared as tuples
SortKeyLT(a, b) == (-a[1] < -b[1]) \/ (a[1] = b[1] /\ DateLT(a[2], b[2]))

\* list.sort is stable: an item goes after every item that is not greater
RECURSIVE InsertStable(_, _)
InsertStable(sorted, x) ==
    IF sorted = <<>> THEN <<x>>
    ELSE IF SortKeyLT(x, Head(sorted)) THEN <<x>> \o sorted
    ELSE <<Head(sorted)>> \o InsertStable(Tail(sorted), x)

RECURSIVE SortGroup(_)
SortGroup(items) ==
    IF items = <<>> THEN <<>>
    ELSE InsertStable(SortGroup(SubSeq(items, 1, Len(items) - 1)), items[Len(items)])

\* lines 252-256: the first of each sorted group, as (f, coverage_pct, date)
SelectFromGroups(groups) ==
    [i \in 1..Len(groups) |->
        LET first == SortGroup(groups[i].items)[1]
        IN  <<first[3], first[1], first[2]>>]

\* lines 236-256
SelectScenes(features, cadence) == SelectFromGroups(BuildGroups(features, cadence, <<>>))

\* lines 224-261 of submit_single_order: the two empty results and the selection
SingleOrderSelection(features, cadence) ==
    IF features = <<>>
    THEN [kind |-> "error", error |-> "No cloud-free scenes found", scenes_found |-> 0]
    ELSE LET selected == SelectScenes(features, cadence)
         IN  IF selected = <<>>
             THEN [kind |-> "error", error |-> "No full-coverage scenes matched filter",
                   scenes_found |-> Len(features)]
             ELSE [kind |-> "selected", selected |-> selected,
                   scenes_found |-> Len(features)]

\* lines 440-477 of submit
SubmitSelection(features, cadence) ==
    IF features = <<>>
    THEN [kind |-> "message", text |-> "No cloud-free PlanetScope scenes found."]
    ELSE LET selected == SelectScenes(features, cadence)
         IN  IF selected = <<>>
             THEN [kind |-> "message", text |-> "No full-coverage scenes matched filter."]
             ELSE [kind |-> "selected", selected |-> selected,
                   scenes_found |-> Len(features)]

\* lines 1057-1077 of search_scenes: selected is assigned inside the loop
\* over the features, after the coverage test, and nowhere else
RECURSIVE SearchScenesLoop(_, _, _, _)
SearchScenesLoop(features, cadence, groups, selected) ==
    IF features = <<>> THEN selected
    ELSE LET f == Head(features)
             coverage_pct == f.cov
             date == StrptimeDash(AcquiredDate(f))
             key == get_interval_key(cadence, date)
             grown == GroupAppend(groups, key, <<coverage_pct, date, f>>)
         IN  IF BelowThreshold(coverage_pct)
             THEN SearchScenesLoop(Tail(features), cadence, groups, selected)
             ELSE SearchScenesLoop(Tail(features), cadence, grown,
                      [bound |-> TRUE, value |-> SelectFromGroups(grown)])

\* lines 1042-1090 of search_scenes: line 1081 reads selected
SearchScenesSelection(features, cadence) ==
    IF features = <<>>
    THEN [kind |-> "message", text |-> "No scenes found."]
    ELSE LET selected == SearchScenesLoop(features, cadence, <<>>, [bound |-> FALSE])
         IN  IF ~selected.bound
             THEN [kind |-> "crash", error |-> "UnboundLocalError"]
             ELSE [kind |-> "selected", selected |-> selected.value,
                   scenes_found |-> Len(features)]

SelInit ==
    /\ \E n \in 0..MaxScenes :
           \E a \in [1..n -> SceneAttrs] : sFeatures = FeatureList(n, a)
    /\ sCadence \in Cadences
    /\ sCmd = "none"
    /\ sOut = [kind |-> "none"]

SelIdle ==
    /\ sFeatures = <<>>
    /\ sCadence = "weekly"
    /\ sCmd = "idle"
    /\ sOut = [kind |-> "none"]

\* the selection step of submit_single_order on the features of a search
SelectInSingleOrder ==
    /\ sCmd = "none"
    /\ sCmd' = "submit_single_order"
    /\ sOut' = SingleOrderSelection(sFeatures, sCadence)
    /\ UNCHANGED <<sFeatures, sCadence>>

\* the selection step of submit
SelectInSubmit ==
    /\ sCmd = "none"
    /\ sCmd' = "submit"
    /\ sOut' = SubmitSelection(sFeatures, sCadence)
    /\ UNCHANGED <<sFeatures, sCadence>>

\* the selection step of search_scenes
SelectInSearchScenes ==
    /\ sCmd = "none"
    /\ sCmd' = "search_scenes"
    /\ sOut' = SearchScenesSelection(sFeatures, sCadence)
    /\ UNCHANGED <<sFeatures, sCadence>>


(***************************************************************************)
(* fetch_all_search_results: one action per page request.  The loop state   *)
(* is [url, first, all, reqs, sleeps, pc, err]; reqs is the list of the     *)
(* requests sent, sleeps counts the calls of time.sleep.  A response is     *)
(* [status, text, features, next]: next is the value of _links._next, or    *)
(* "none" when the response has no such key.                                *)
(***************************************************************************)

MaxPages == 3
MaxPageLen == 2

SEARCH_URL == "https://api.planet.com/data/v1/quick-search"
NextRefs == {"next-A", "next-B"}
FetchItems == {"a", "b"}
PageContents == UNION { [1..n -> FetchItems] : n \in 0..MaxPageLen }
ErrorStatuses == {429, 500}
\* response bodies of a refused request
ErrorTexts == {"Too many requests", "No cloud-free capacity left"}

OkResponses ==
    { [status |-> 200, text |-> "", features |-> c, next |-> x] :
          c \in PageContents, x \in NextRefs \cup {"none"} }
ErrorResponses ==
    { [status |-> st, text |-> t, features |-> <<>>, next |-> "none"] :
          st \in ErrorStatuses, t \in ErrorTexts }

\* lines 82-85
FetchStart(search_url, search_payload) ==
    [url |-> search_url, payload |-> search_payload, first |-> TRUE, all |-> <<>>,
     reqs |-> <<>>, sleeps |-> 0, pc |-> "loop", err |-> <<>>]

\* lines 88-94 with every request a POST of the payload
FetchRequestAlwaysPost(st) ==
    [method |-> "POST", url |-> st.url, payload |-> st.payload]

\* lines 88-94: the first request POSTs the payload, the others GET the url
FetchRequest(st) ==
    IF st.first
    THEN [method |-> "POST", url |-> st.url, payload |-> st.payload]
    ELSE [method |-> "GET", url |-> st.url, payload |-> "none"]

\* line 101 with the new page put in front
ExtendFeaturesInFront(all_features, features) == features \o all_features

\* line 101: all_features.extend(features)
ExtendFeatures(all_features, features) == all_features \o features

\* lines 88-110 with a refused request ending the loop like a last page
FetchStepKeepsPages(st, resp) ==
    LET sent == [st EXCEPT !.reqs = Append(st.reqs, FetchRequest(st)), !.first = FALSE]
    IN  IF resp.status # 200
        THEN [sent EXCEPT !.pc = "returned"]
        ELSE LET got == [sent EXCEPT !.all = ExtendFeatures(st.all, resp.features)]
             IN  IF resp.next # "none"
                 THEN [got EXCEPT !.url = resp.next, !.sleeps = st.sleeps + 1]
                 ELSE [got EXCEPT !.pc = "returned"]

\* lines 88-110 with time.sleep of line 107 called after every page
FetchStepSleepsAfterEveryPage(st, resp) ==
    LET sent == [st EXCEPT !.reqs = Append(st.reqs, FetchRequest(st)), !.first = FALSE]
    IN  IF resp.status # 200
        THEN [sent EXCEPT !.pc = "raised", !.err = <<resp.status, resp.text>>]
        ELSE LET got == [sent EXCEPT !.all = ExtendFeatures(st.all, resp.features),
                                     !.sleeps = st.sleeps + 1]
             IN  IF resp.next # "none"
                 THEN [got EXCEPT !.url = resp.next]
                 ELSE [got EXCEPT !.pc = "returned"]

\* lines 88-110: one iteration of the while loop, answered by resp
FetchStep(st, resp) ==
    LET sent == [st EXCEPT !.reqs = Append(st.reqs, FetchRequest(st)), !.first = FALSE]
    IN  IF resp.status # 200
        THEN [sent EXCEPT !.pc = "raised", !.err = <<resp.status, resp.text>>]
        ELSE LET got == [sent EXCEPT !.all = ExtendFeatures(st.all, resp.features)]
             IN  IF resp.next # "none"
                 THEN [got EXCEPT !.url = resp.next, !.sleeps = st.sleeps + 1]
                 ELSE [got EXCEPT !.pc = "returned"]

FetchInit ==
    /\ fetch = FetchStart(SEARCH_URL, "filter")
    /\ fResps = <<>>

FetchIdle ==
    /\ fetch = [pc |-> "idle"]
    /\ fResps = <<>>

\* a page that names a next page (the model stops the server at MaxPages)
FetchPageWithNext ==
    /\ fetch.pc = "loop"
    /\ Len(fetch.reqs) + 1 < MaxPages
    /\ \E resp \in { r \in OkResponses : r.next # "none" } :
           /\ fetch' = FetchStep(fetch, resp)
           /\ fResps' = Append(fResps, resp)

\* a page that names no next page
FetchLastPage ==
    /\ fetch.pc = "loop"
    /\ \E resp \in { r \in OkResponses : r.next = "none" } :
           /\ fetch' = FetchStep(fetch, resp)
           /\ fResps' = Append(fResps, resp)

\* a response whose status is not 200
FetchPageFails ==
    /\ fetch.pc = "loop"
    /\ \E resp \in ErrorResponses :
           /\ fetch' = FetchStep(fetch, resp)
           /\ fResps' = Append(fResps, resp)


(***************************************************************************)
(* The commands.  The ledger file orders.json is [state, orders]: state is  *)
(* "absent", "malformed" (not JSON), "object" (JSON, but no list) or "list". *)
(***************************************************************************)

\* lines 49-63 with the list rebuilt from the new entry alone
log_order_rewrite(led, order_data) ==
    [state |-> "list", orders |-> <<[order_data EXCEPT !.timestamp = "now"]>>]

\* lines 56, 62: json.load returns what the file holds, and append on what
\* is no list raises AttributeError before the file is opened for writing
log_order_raises(led) == led.state = "object"

\* lines 49-63: read the whole list, append, write the whole list
log_order(led, order_data) ==
    LET entry == [order_data EXCEPT !.timestamp = "now"]
        orders == IF led.state = "list" THEN led.orders ELSE <<>>
    IN  [state |-> "list", orders |-> Append(orders, entry)]

\* lines 298, 508, 556 with every answer but a server error taken for
\* acceptance
OrderAcceptedBelow500(status_code) == status_code < 500

\* lines 298, 508, 556: response.status_code == 202
OrderAccepted(status_code) == status_code = 202

\* lines 267-280 without the early return of the dry run
IsDryRunNever(dry_run) == FALSE

\* line 267: if dry_run
IsDryRun(dry_run) == dry_run

\* lines 43-47: the prefix AOI_ / DrySpy_AOI_ and a compass suffix are cut
normalize_aoi_name(raw_name) ==
    IF raw_name = "AOI_site1_north" THEN "site1"
    ELSE IF raw_name = "DrySpy_AOI_site2" THEN "site2"
    ELSE raw_name

\* lines 397-405 of submit
ResolveBundleSubmit(bundle, num_bands, start_year) ==
    IF bundle # "" THEN bundle
    ELSE IF num_bands = "four_bands" THEN "ortho_analytic_4b_sr"
    ELSE IF start_year >= 2021 THEN "ortho_analytic_8b_sr" ELSE "ortho_analytic_4b_sr"

\* lines 408-413, 1206-1211: the order-time name of a search-time bundle
Crosswalk(product_bundle) ==
    IF product_bundle = "ortho_analytic_4b_sr" THEN "analytic_sr_udm2"
    ELSE IF product_bundle = "ortho_analytic_8b_sr" THEN "analytic_8b_sr_udm2"
    ELSE product_bundle

\* min(...) of line 1201
MinOf(S) == CHOOSE x \in S : \A y \in S : x <= y

\* lines 1192-1203 of batch_submit: min() of no order raises ValueError
ResolveBundleBatch(bundle, num_bands, all_orders) ==
    IF bundle # "" THEN bundle
    ELSE IF num_bands = "four_bands" THEN "ortho_analytic_4b_sr"
    ELSE IF all_orders = <<>> THEN "ValueError"
    ELSE IF MinOf({ all_orders[i].start_date[2] : i \in 1..Len(all_orders) }) >= 2021
         THEN "ortho_analytic_8b_sr" ELSE "ortho_analytic_4b_sr"

\* lines 87-112: the loop run to its end against the answers of a server
RECURSIVE FetchAll(_, _)
FetchAll(st, script) ==
    IF st.pc # "loop" \/ script = <<>> THEN st
    ELSE FetchAll(FetchStep(st, Head(script)), Tail(script))

\* lines 202-214: the search request body; only the asset filter varies
SearchPayload(product_bundle) == <<"filter", product_bundle>>

\* lines 157-174: the loop run to its end
RECURSIVE SubdivideFrom(_, _, _, _)
SubdivideFrom(current_start, end_dt, max_months, chunks) ==
    IF ~DateLE(current_start, end_dt) THEN chunks
    ELSE LET chunk_end == ChunkEnd(current_start, end_dt, max_months)
         IN  SubdivideFrom(NextStart(chunk_end), end_dt, max_months,
                 Append(chunks, <<StrftimeDash(current_start), StrftimeDash(chunk_end)>>))

\* lines 142-174
subdivide_date_range(start_date, end_date, max_months) ==
    SubdivideFrom(StrptimeDash(start_date), StrptimeDash(end_date), max_months, <<>>)

\* an error text f"{msg}: {status} - {text}", kept in its three parts
ErrorText(msg, status, text) == [msg |-> msg, status |-> status, text |-> text]

\* what submit_single_order returns before any order request: r is the
\* result dict; the ledger is untouched
NoOrderRequest(search, led, r) ==
    [raised |-> FALSE, ledger |-> led, posted |-> FALSE, order_bundle |-> "",
     item_ids |-> <<>>, search_reqs |-> search.reqs, result |-> r]

\* lines 261-265, 268-280: the fields of the result dict of a unit with scenes
OrderReport(a, scenes_found, scenes_selected) ==
    [success |-> TRUE, gage_id |-> a.gage_id,
     start_date |-> a.start_date, end_date |-> a.end_date,
     scenes_found |-> scenes_found, scenes_selected |-> scenes_selected,
     aoi_area_sqkm |-> a.aoi_area_sqkm,
     quota_sqkm |-> a.aoi_area_sqkm * scenes_selected,
     quota_hectares |-> a.aoi_area_sqkm * scenes_selected * 100]

\* lines 300-314: the ledger entry of an accepted unit
OrderLog(a, order_id, scenes_selected) ==
    [order_id |-> order_id, aoi_name |-> a.gage_id, order_type |-> "PSScope",
     start_date |-> a.start_date, end_date |-> a.end_date,
     num_bands |-> a.num_bands, product_bundle |-> a.product_bundle,
     product_bundle_order |-> a.product_bundle_order,
     clipped |-> TRUE, aoi_area_sqkm |-> a.aoi_area_sqkm,
     scenes_selected |-> scenes_selected,
     batch_order |-> TRUE, timestamp |-> "submitted"]

\* lines 300-314 without the batch id of lines 315-316
WithoutBatchId(a, order_log) == order_log

\* lines 315-316: the batch id is added when one was given
WithBatchId(a, order_log) ==
    IF a.batch_id # <<>> THEN order_log @@ [batch_id |-> a.batch_id] ELSE order_log

\* lines 282-331: the order request and what follows its answer
PlaceOrder(a, search, item_ids, report, answer, led) ==
    IF answer.kind = "exception" \/ (OrderAccepted(answer.status) /\ log_order_raises(led))
    THEN [raised |-> TRUE, ledger |-> led, posted |-> TRUE,
          order_bundle |-> a.product_bundle_order, item_ids |-> item_ids,
          search_reqs |-> search.reqs, result |-> [success |-> FALSE]]
    ELSE [raised |-> FALSE,
          ledger |-> IF OrderAccepted(answer.status)
                     THEN log_order(led, WithBatchId(a,
                              OrderLog(a, answer.id, report.scenes_selected)))
                     ELSE led,
          posted |-> TRUE,
          order_bundle |-> a.product_bundle_order, item_ids |-> item_ids,
          search_reqs |-> search.reqs,
          result |-> IF OrderAccepted(answer.status)
                     THEN report @@ [order_id |-> answer.id]
                     ELSE [success |-> FALSE,
                           error |-> ErrorText("Order failed", answer.status,
                                               answer.text)]]

\* lines 224-280: from the selection to the dry-run return
OrderFromSelection(a, search, sel, answer, led) ==
    IF sel.kind = "error"
    THEN NoOrderRequest(search, led,
             [success |-> FALSE, error |-> ErrorText(sel.error, 0, ""),
              scenes_found |-> sel.scenes_found])
    ELSE IF IsDryRun(a.dry_run)
    THEN NoOrderRequest(search, led,
             OrderReport(a, Len(search.all), Len(sel.selected)) @@
             [dry_run |-> TRUE,
              item_ids |-> [i \in 1..Len(sel.selected) |-> sel.selected[i][1].id]])
    ELSE PlaceOrder(a, search,
             [i \in 1..Len(sel.selected) |-> sel.selected[i][1].id],
             OrderReport(a, Len(search.all), Len(sel.selected)), answer, led)

\* lines 216-222: the search and its failure
OrderFromSearch(a, search, answer, led) ==
    IF search.pc = "raised"
    THEN NoOrderRequest(search, led,
             [success |-> FALSE,
              error |-> ErrorText("Search failed", search.err[1], search.err[2])])
    ELSE OrderFromSelection(a, search, SingleOrderSelection(search.all, a.cadence),
                            answer, led)

\* lines 177-331.  a: the arguments; script: the answers of the search
\* endpoint; answer: the answer of the order endpoint, [kind, status, text,
\* id] with kind "response" or "exception"; led: the ledger.  Returns the
\* result dict (or raised), the ledger, and the requests sent.
submit_single_order(a, script, answer, led) ==
    OrderFromSearch(a,
        FetchAll(FetchStart(SEARCH_URL, SearchPayload(a.product_bundle)), script),
        answer, led)


(***************************************************************************)
(* The inputs of the commands                                               *)
(***************************************************************************)

MaxOrders == 2

Scene1 == [id |-> 1, cov |-> 100, acquired |-> <<"-", 2024, 3, 30, 0>>]
Scene2 == [id |-> 2, cov |-> 98, acquired |-> <<"-", 2024, 3, 31, 0>>]
Scene3 == [id |-> 3, cov |-> 97, acquired |-> <<"-", 2024, 3, 31, 1>>]

Page(features, next) == [status |-> 200, text |-> "", features |-> features, next |-> next]
Refusal(status, text) == [status |-> status, text |-> text, features |-> <<>>, next |-> "none"]

\* what the search endpoint answers during one search: two pages, no scene,
\* no scene that covers the AOI, a refusal, a refusal on page two
SearchScripts ==
    { << Page(<<Scene1>>, "next-A"), Page(<<Scene2, Scene3>>, "none") >>,
      << Page(<<>>, "none") >>,
      << Page(<<Scene3>>, "none") >>,
      << Refusal(500, "Too many requests") >>,
      << Page(<<Scene1>>, "next-A"), Refusal(429, "No cloud-free capacity left") >> }

\* what the order endpoint does with one order request: accept it under a
\* new id (the model's endpoint accepts MaxOrders orders), refuse it, or
\* fail to answer (requests raises)
OrderAnswers ==
    { [kind |-> "response", status |-> 202, text |-> "", id |-> i] :
          i \in { j \in {nextId} : j <= MaxOrders } }
    \cup { [kind |-> "response", status |-> 400, text |-> "Bad request", id |-> 0],
           [kind |-> "exception", status |-> 0, text |-> "", id |-> 0] }

Row1 == [gage_id |-> "gage1", start_date |-> <<"-", 2020, 12, 1>>,
         end_date |-> <<"-", 2021, 1, 15>>, area |-> 2]
Row2 == [gage_id |-> "gage2", start_date |-> <<"invalid">>,
         end_date |-> <<"-", 2021, 1, 15>>, area |-> 3]
Row3 == [gage_id |-> "gage3", start_date |-> <<"-", 2022, 3, 1>>,
         end_date |-> <<"-", 2022, 3, 10>>, area |-> 5]

Row4 == [gage_id |-> "gage4", start_date |-> <<"-", 2022, 3, 1>>,
         end_date |-> <<"invalid">>, area |-> 3]

\* the rows of the shapefile
Shapefiles == { <<Row1, Row2, Row3>>, <<Row4>> }

BundleOptions == {""}
NumBands == {"four_bands"}
MaxMonthsOptions == {1, 6}
BatchCadences == {"weekly"}

\* lines 1140-1167 with an unparsable date ending the loop over the rows
RECURSIVE PrepareOrdersUntilBadRow(_, _, _)
PrepareOrdersUntilBadRow(rows, idx, max_months) ==
    IF idx > Len(rows) THEN <<>>
    ELSE IF ~(IsDashDate(rows[idx].start_date) /\ IsDashDate(rows[idx].end_date))
    THEN <<>>
    ELSE [k \in 1..Len(subdivide_date_range(rows[idx].start_date, rows[idx].end_date,
                                            max_months)) |->
             [gage_id |-> rows[idx].gage_id,
              start_date |-> subdivide_date_range(rows[idx].start_date,
                                 rows[idx].end_date, max_months)[k][1],
              end_date |-> subdivide_date_range(rows[idx].start_date,
                               rows[idx].end_date, max_months)[k][2],
              area |-> rows[idx].area, row_idx |-> idx]]
         \o PrepareOrdersUntilBadRow(rows, idx + 1, max_months)

\* lines 1140-1167: the order units of the rows whose dates parse
RECURSIVE PrepareOrders(_, _, _)
PrepareOrders(rows, idx, max_months) ==
    IF idx > Len(rows) THEN <<>>
    ELSE LET row == rows[idx]
             rest == PrepareOrders(rows, idx + 1, max_months)
         IN  IF ~(IsDashDate(row.start_date) /\ IsDashDate(row.end_date))
             THEN rest
             ELSE LET date_chunks ==
                          subdivide_date_range(row.start_date, row.end_date, max_months)
                  IN  [k \in 1..Len(date_chunks) |->
                          [gage_id |-> row.gage_id, start_date |-> date_chunks[k][1],
                           end_date |-> date_chunks[k][2], area |-> row.area,
                           row_idx |-> idx]] \o rest

\* the substring tests of line 1263 on the error text of a result
HasNoCloudFree(error) ==
    \/ error.msg = "No cloud-free scenes found"
    \/ error.text = "No cloud-free capacity left"
HasNoFullCoverage(error) == error.msg = "No full-coverage scenes matched filter"

\* lines 1254-1268: the list a unit's result goes to
ClassifyResult(result) ==
    IF result.success THEN "submitted"
    ELSE IF HasNoCloudFree(result.error) \/ HasNoFullCoverage(result.error) THEN "no_scenes"
    ELSE "failed"

NoBatch == [pc |-> "idle"]

\* the record of the last step when it was none of the calls that can order
NoCommand(cmd) ==
    [cmd |-> cmd, dry_run |-> FALSE, posted |-> FALSE, status |-> 0,
     searched |-> 0, search_resps |-> <<>>, raised |-> FALSE, printed |-> "",
     exit_code |-> 0, result |-> <<>>]

\* line 1184: str(uuid.uuid4()), a new id for every run
NewBatchId(n) == <<"uuid", n>>

\* a batch id that no entry of the ledger carries
FreshBatchId(led) ==
    LET used == { led.orders[i].batch_id[2] :
                      i \in { j \in 1..Len(led.orders) :
                                 "batch_id" \in DOMAIN led.orders[j] } }
    IN  NewBatchId(Cardinality(used) + 1)

OrdersInit ==
    /\ ledger \in { [state |-> "absent", orders |-> <<>>],
                    [state |-> "malformed", orders |-> <<>>],
                    [state |-> "object", orders |-> <<>>],
                    [state |-> "list", orders |-> <<>>] }
    /\ accepted = {}
    /\ nextId = 1
    /\ last = NoCommand("none")
    /\ batch = NoBatch

OrdersIdle ==
    /\ ledger = [state |-> "absent", orders |-> <<>>]
    /\ accepted = {}
    /\ nextId = 1
    /\ last = NoCommand("idle")
    /\ batch = NoBatch

\* the order endpoint after an order request that it answered with answer
ServerAfter(posted, answer) ==
    /\ IF posted /\ answer.kind = "response" /\ answer.status = 202
       THEN accepted' = accepted \cup {answer.id} /\ nextId' = nextId + 1
       ELSE UNCHANGED <<accepted, nextId>>

\* lines 1116-1118, 1131-1137: what is wrong with the configuration of a run
ConfigError(api_key, columns_ok) ==
    IF api_key = "" THEN "no_api_key"
    ELSE IF ~columns_ok THEN "missing_columns"
    ELSE "ok"

\* lines 1116-1220 of batch_submit: the units, the batch id, the bundle
BatchStart ==
    /\ batch.pc = "idle"
    /\ \E rows \in Shapefiles, num_bands \in NumBands, bundle \in BundleOptions,
          cadence \in BatchCadences, max_months \in MaxMonthsOptions, dry_run \in BOOLEAN,
          api_key \in {"", "key"}, columns_ok \in BOOLEAN :
           LET all_orders == PrepareOrders(rows, 1, max_months)
               product_bundle == ResolveBundleBatch(bundle, num_bands, all_orders)
           IN  batch' =
                   IF ConfigError(api_key, columns_ok) # "ok"
                   THEN [pc |-> "returned", exit_code |-> 0, dry_run |-> dry_run,
                         config |-> ConfigError(api_key, columns_ok),
                         posts |-> 0, searches |-> 0]
                   ELSE IF product_bundle = "ValueError"
                   THEN [pc |-> "exit", exit_code |-> 1, dry_run |-> dry_run,
                         config |-> "ok", searches |-> 0,
                         batch_id |-> FreshBatchId(ledger), posts |-> 0,
                         rows |-> rows, max_months |-> max_months]
                   ELSE [pc |-> "run", dry_run |-> dry_run,
                         config |-> "ok", searches |-> 0,
                         rows |-> rows, max_months |-> max_months,
                         batch_id |-> FreshBatchId(ledger), posts |-> 0,
                         units |-> all_orders, i |-> 1, num_bands |-> num_bands,
                         cadence |-> cadence, product_bundle |-> product_bundle,
                         product_bundle_order |-> Crosswalk(product_bundle),
                         submitted |-> <<>>, failed |-> <<>>, no_scenes |-> <<>>]
    /\ last' = NoCommand("batch_submit")
    /\ UNCHANGED <<ledger, accepted, nextId>>

\* lines 1254-1268, 1302-1306: the run after the result r of a unit
BatchAfterUnit(order, r, class) ==
    IF r.raised
    THEN [batch EXCEPT !.pc = "exit", !.posts = @ + 1,
                       !.searches = @ + Len(r.search_reqs)] @@ [exit_code |-> 1]
    ELSE [batch EXCEPT
             !.i = @ + 1,
             !.searches = @ + Len(r.search_reqs),
             !.posts = IF r.posted THEN @ + 1 ELSE @,
             !.submitted = IF class = "submitted" THEN Append(@, r.result) ELSE @,
             !.no_scenes = IF class = "no_scenes"
                           THEN Append(@, order @@ r.result) ELSE @,
             !.failed = IF class = "failed" THEN Append(@, order @@ r.result) ELSE @]

\* the state after one call of submit_single_order that returned r
UnitReturns(order, r, script, answer) ==
    /\ ledger' = r.ledger
    /\ ServerAfter(r.posted, answer)
    /\ last' = [cmd |-> "submit_single_order", dry_run |-> batch.dry_run,
                posted |-> r.posted,
                status |-> IF r.posted THEN answer.status ELSE 0,
                searched |-> Len(r.search_reqs),
                search_resps |-> SubSeq(script, 1, Len(r.search_reqs)),
                raised |-> r.raised, printed |-> "", exit_code |-> 0,
                result |-> r.result]
    /\ batch' = BatchAfterUnit(order, r, ClassifyResult(r.result))

\* lines 1222-1268, 1302-1306: one unit of the loop over all_orders
BatchUnit ==
    /\ batch.pc = "run"
    /\ batch.i <= Len(batch.units)
    /\ \E script \in SearchScripts, answer \in OrderAnswers :
           UnitReturns(batch.units[batch.i],
               submit_single_order(
                   [aoi_area_sqkm |-> batch.units[batch.i].area,
                    start_date |-> batch.units[batch.i].start_date,
                    end_date |-> batch.units[batch.i].end_date,
                    gage_id |-> batch.units[batch.i].gage_id,
                    num_bands |-> batch.num_bands,
                    product_bundle |-> batch.product_bundle,
                    product_bundle_order |-> batch.product_bundle_order,
                    cadence |-> batch.cadence, dry_run |-> batch.dry_run,
                    batch_id |-> batch.batch_id],
                   script, answer, ledger),
               script, answer)

\* lines 1270-1300: the summary after the last unit
BatchFinish ==
    /\ batch.pc = "run"
    /\ batch.i > Len(batch.units)
    /\ batch' = [batch EXCEPT !.pc = "done"] @@ [exit_code |-> 0]
    /\ last' = NoCommand("batch_submit")
    /\ UNCHANGED <<ledger, accepted, nextId>>


\* lines 1118, 1137, 1300, 1306: the process of the run ends, by return or
\* sys.exit(1); the ledger file and the orders placed outlive it
BatchExit ==
    /\ batch.pc \in {"returned", "done", "exit"}
    /\ batch' = NoBatch
    /\ UNCHANGED <<ledger, accepted, nextId, last>>

SubmitStems == {"AOI_site1_north"}
SubmitRanges == { <<<<"-", 2020, 12, 1>>, <<"-", 2021, 1, 15>>>> }
ProceedAnswers == {"y", "n"}
MosaicNames == {"global_monthly_2024_03_mosaic"}

\* what a command returns: the ledger, whether the order request was sent,
\* whether an exception left the command, what was printed last, the exit code
CommandReturn(led, searched, posted, raised, printed) ==
    [ledger |-> led, searched |-> searched, posted |-> posted, raised |-> raised,
     printed |-> printed, exit_code |-> IF raised THEN 1 ELSE 0]

\* lines 486-528 of submit: the confirmation, the order request, the entry
SubmitOrder(a, search, product_bundle_order, proceed, answer, led) ==
    IF proceed # "y"
    THEN CommandReturn(led, Len(search.reqs), FALSE, FALSE, "Order cancelled by user.")
    ELSE IF answer.kind = "exception" \/ (OrderAccepted(answer.status) /\ log_order_raises(led))
    THEN CommandReturn(led, Len(search.reqs), TRUE, TRUE, "Error")
    ELSE IF OrderAccepted(answer.status)
    THEN CommandReturn(
             log_order(led,
                 [order_id |-> answer.id,
                  aoi_name |-> normalize_aoi_name(a.stem),
                  order_type |-> "PSScope",
                  start_date |-> a.start_date, end_date |-> a.end_date,
                  num_bands |-> a.num_bands,
                  product_bundle |-> product_bundle_order,
                  clipped |-> TRUE, aoi_area_sqkm |-> a.aoi_area_sqkm,
                  timestamp |-> "submitted"]),
             Len(search.reqs), TRUE, FALSE, "Order submitted successfully")
    ELSE CommandReturn(led, Len(search.reqs), TRUE, FALSE, "Order submission failed")

\* lines 415-485 of submit: the search and the selection
SubmitFromSearch(a, search, product_bundle_order, proceed, answer, led) ==
    IF search.pc = "raised"
    THEN CommandReturn(led, Len(search.reqs), FALSE, FALSE, "Failed to search for scenes")
    ELSE IF SubmitSelection(search.all, a.cadence).kind = "message"
    THEN CommandReturn(led, Len(search.reqs), FALSE, FALSE,
                       SubmitSelection(search.all, a.cadence).text)
    ELSE SubmitOrder(a, search, product_bundle_order, proceed, answer, led)

\* lines 376-528 of submit
submit(a, script, proceed, answer, led) ==
    SubmitFromSearch(a,
        FetchAll(FetchStart(SEARCH_URL,
                     SearchPayload(ResolveBundleSubmit(a.bundle, a.num_bands,
                                                       a.start_date[2]))),
                 script),
        Crosswalk(ResolveBundleSubmit(a.bundle, a.num_bands, a.start_date[2])),
        proceed, answer, led)

\* lines 535-570 of order_basemap
order_basemap(mosaic_name, geojson, api_key, answer, led) ==
    IF api_key = ""
    THEN CommandReturn(led, 0, FALSE, FALSE, "Error: API key is missing.")
    ELSE IF geojson = ""
    THEN CommandReturn(led, 0, FALSE, FALSE, "Error: A GeoJSON file must be provided.")
    ELSE IF answer.kind = "exception" \/ (OrderAccepted(answer.status) /\ log_order_raises(led))
    THEN CommandReturn(led, 0, TRUE, TRUE, "Traceback")
    ELSE IF OrderAccepted(answer.status)
    THEN CommandReturn(
             log_order(led,
                 [order_id |-> answer.id, order_type |-> "Basemap (Composite)",
                  aoi_name |-> normalize_aoi_name(geojson),
                  mosaic_name |-> mosaic_name,
                  start_date |-> "N/A", end_date |-> "N/A",
                  timestamp |-> "submitted"]),
             0, TRUE, FALSE, "Order submitted successfully")
    ELSE CommandReturn(led, 0, TRUE, FALSE, "Error submitting order")

\* the state after a command that returned r
CommandReturns(cmd, r, script, answer) ==
    /\ ledger' = r.ledger
    /\ ServerAfter(r.posted, answer)
    /\ last' = [cmd |-> cmd, dry_run |-> FALSE, posted |-> r.posted,
                status |-> IF r.posted THEN answer.status ELSE 0,
                searched |-> r.searched,
                search_resps |-> SubSeq(script, 1, r.searched),
                raised |-> r.raised, printed |-> r.printed,
                exit_code |-> r.exit_code, result |-> <<>>]
    /\ batch' = NoBatch

\* the submit command, from its options to its exit
Submit ==
    /\ batch.pc = "idle"
    /\ \E stem \in SubmitStems, range \in SubmitRanges, num_bands \in NumBands,
          bundle \in BundleOptions, cadence \in BatchCadences,
          script \in SearchScripts, proceed \in ProceedAnswers, answer \in OrderAnswers :
           CommandReturns("submit",
               submit([stem |-> stem, start_date |-> range[1], end_date |-> range[2],
                       num_bands |-> num_bands, bundle |-> bundle,
                       cadence |-> cadence, aoi_area_sqkm |-> 2],
                      script, proceed, answer, ledger),
               script, answer)

\* the order-basemap command, from its options to its exit
OrderBasemap ==
    /\ batch.pc = "idle"
    /\ \E mosaic_name \in MosaicNames, geojson \in {"", "DrySpy_AOI_site2"},
          api_key \in {"", "key"}, answer \in OrderAnswers :
           CommandReturns("order_basemap",
               order_basemap(mosaic_name, geojson, api_key, answer, ledger),
               <<>>, answer)

(***************************************************************************)
(* Bundle resolution.  bIn is the options of a command: the override, the   *)
(* band count and the start dates of its orders; bOut is, per order, the    *)
(* asset filter of its search and the product_bundle of its order request.  *)
(***************************************************************************)

MaxBundleUnits == 2
BundleYears == {2020, 2021, 2022}
BundleOverrides == {"", "custom_bundle"}
BandChoices == {"four_bands", "eight_bands"}

\* the start dates of the orders of one command
BundleStarts ==
    UNION { [1..n -> { <<"-", y, 1, 1>> : y \in BundleYears }] : n \in 0..MaxBundleUnits }

\* lines 1008-1016 of search_scenes
ResolveBundleSearchScenes(bundle, num_bands, start_year) ==
    IF bundle # "" THEN bundle
    ELSE IF num_bands = "four_bands" THEN "ortho_analytic_4b_sr"
    ELSE IF start_year >= 2021 THEN "ortho_analytic_8b_sr" ELSE "analytic_sr_udm2"

\* lines 209, 289: what one order sends as asset filter and as product_bundle
BundlesSent(start_date, product_bundle, product_bundle_order) ==
    [start_year |-> start_date[2], search_bundle |-> product_bundle,
     order_bundle |-> product_bundle_order]

BundleInit ==
    /\ bIn \in [bundle : BundleOverrides, num_bands : BandChoices, starts : BundleStarts]
    /\ bCmd = "start"
    /\ bOut = <<>>

BundleIdle ==
    /\ bIn = [bundle |-> "", num_bands |-> "four_bands", starts |-> <<>>]
    /\ bCmd = "idle"
    /\ bOut = <<>>

\* lines 395-413, 424, 497 of submit: one order
ResolveInSubmit ==
    /\ bCmd = "start"
    /\ Len(bIn.starts) = 1
    /\ bCmd' = "submit"
    /\ bOut' = << BundlesSent(bIn.starts[1],
                     ResolveBundleSubmit(bIn.bundle, bIn.num_bands, bIn.starts[1][2]),
                     Crosswalk(ResolveBundleSubmit(bIn.bundle, bIn.num_bands,
                                                   bIn.starts[1][2]))) >>
    /\ UNCHANGED bIn

\* lines 1006-1027 of search_scenes: one search, no order request
ResolveInSearchScenes ==
    /\ bCmd = "start"
    /\ Len(bIn.starts) = 1
    /\ bCmd' = "search_scenes"
    /\ bOut' = << BundlesSent(bIn.starts[1],
                     ResolveBundleSearchScenes(bIn.bundle, bIn.num_bands,
                                               bIn.starts[1][2]),
                     "none") >>
    /\ UNCHANGED bIn

\* the units of a batch whose start dates are starts
UnitsOf(starts) == [i \in 1..Len(starts) |-> [start_date |-> starts[i]]]

\* lines 1191-1211, 1238-1252 of batch_submit: every unit is handed the one
\* product_bundle and product_bundle_order of the run
ResolveInBatch ==
    /\ bCmd = "start"
    /\ IF ResolveBundleBatch(bIn.bundle, bIn.num_bands, UnitsOf(bIn.starts)) = "ValueError"
       THEN bCmd' = "raised" /\ bOut' = <<>>
       ELSE /\ bCmd' = "batch_submit"
            /\ bOut' = [i \in 1..Len(bIn.starts) |->
                           BundlesSent(bIn.starts[i],
                               ResolveBundleBatch(bIn.bundle, bIn.num_bands,
                                                  UnitsOf(bIn.starts)),
                               Crosswalk(ResolveBundleBatch(bIn.bundle, bIn.num_bands,
                                                            UnitsOf(bIn.starts))))]
    /\ UNCHANGED bIn

(***************************************************************************)
(* The status commands.  store is the destination: the objects of the S3    *)
(* bucket and the files under a local directory, each [where, key, body];   *)
(* events is what the running status command has done to the network and   *)
(* to the destination, in order; check is the command itself.  A file name  *)
(* is [date, words, ext]: the eight digits before the first underscore (or  *)
(* <<>>), the pieces between the later underscores, the extension.  A key   *)
(* is the tuple of the parts its f-string joins.                            *)
(***************************************************************************)

MaxRuns == 2

\* Path(link.get("name", "")).name: the directory is dropped
Basename(name) == name[2]

\* lines 114-121
extract_date_from_filename(filename) ==
    IF filename.date = <<>> THEN <<>>
    ELSE <<"_", filename.date[1], filename.date[2], filename.date[3]>>

\* lines 123-129: \w+ is greedy, the id runs up to the last underscore
extract_scene_id(filename) ==
    IF filename.date = <<>> \/ Len(filename.words) < 2 THEN <<>>
    ELSE SubSeq(filename.words, 1, Len(filename.words) - 1)

\* lines 627, 828: what is no image of the scene flow
EndsWithTif(filename) == filename.ext = ".tif"
HasUdm(filename) == \E i \in 1..Len(filename.words) : filename.words[i] = "udm2"
EndsWithXml(filename) == filename.ext = ".xml"
\* lines 627, 828 without the test for 'udm'
NotAnImageKeepsMasks(filename) == ~EndsWithTif(filename) \/ EndsWithXml(filename)

NotAnImage(filename) ==
    ~EndsWithTif(filename) \/ HasUdm(filename) \/ EndsWithXml(filename)

\* comparison of two "YYYY_MM_DD" strings
StrDateLT(a, b) ==
    \/ a[2] < b[2]
    \/ a[2] = b[2] /\ a[3] < b[3]
    \/ a[2] = b[2] /\ a[3] = b[3] /\ a[4] < b[4]

\* lines 646, 844: the key (week_start, date); the cloud_cover of line 646
\* is always 0
ImageKeyLT(a, b) ==
    \/ StrDateLT(a.week_start, b.week_start)
    \/ a.week_start = b.week_start /\ StrDateLT(a.date, b.date)

\* sorted() is stable
RECURSIVE InsertImage(_, _)
InsertImage(sorted, x) ==
    IF sorted = <<>> THEN <<x>>
    ELSE IF ImageKeyLT(x, Head(sorted)) THEN <<x>> \o sorted
    ELSE <<Head(sorted)>> \o InsertImage(Tail(sorted), x)

RECURSIVE SortImages(_)
SortImages(items) ==
    IF items = <<>> THEN <<>>
    ELSE InsertImage(SortImages(SubSeq(items, 1, Len(items) - 1)), items[Len(items)])

\* lines 622-644, 823-842: the images among the links, one per file name
RECURSIVE ImageMetadata(_, _, _)
ImageMetadata(download_links, k, processed_filenames) ==
    IF k > Len(download_links) THEN <<>>
    ELSE LET filename == Basename(download_links[k].name)
             date_str == extract_date_from_filename(filename)
             scene_id == extract_scene_id(filename)
         IN  IF filename \in processed_filenames
             THEN ImageMetadata(download_links, k + 1, processed_filenames)
             ELSE IF NotAnImage(filename) \/ date_str = <<>>
             THEN ImageMetadata(download_links, k + 1,
                                processed_filenames \cup {filename})
             ELSE <<[filename |-> filename, date |-> date_str,
                     week_start |-> get_week_start_date(date_str),
                     scene_id |-> IF scene_id = <<>> THEN <<"unknown">> ELSE scene_id,
                     url |-> download_links[k].location]>>
                  \o ImageMetadata(download_links, k + 1,
                                   processed_filenames \cup {filename})

\* lines 645-649, 843-847 with every image kept, not the first of its week
EveryImage(sorted, weeks) == sorted

\* lines 645-649, 843-847: the first image of every week, in sorted order
RECURSIVE FirstOfWeeks(_, _)
FirstOfWeeks(sorted, weeks) ==
    IF sorted = <<>> THEN <<>>
    ELSE IF Head(sorted).week_start \in weeks
    THEN FirstOfWeeks(Tail(sorted), weeks)
    ELSE <<Head(sorted)>>
         \o FirstOfWeeks(Tail(sorted), weeks \cup {Head(sorted).week_start})

\* lines 620-649, 821-847
WeeklyImages(download_links) ==
    FirstOfWeeks(SortImages(ImageMetadata(download_links, 1, {})), {})

\* mosaic_name.split("_")
SplitUnderscore(mosaic_name) ==
    IF mosaic_name = "global_monthly_2024_03_mosaic"
    THEN <<"global", "monthly", "2024", "03", "mosaic">>
    ELSE IF mosaic_name = "unknown_mosaic" THEN <<"unknown", "mosaic">>
    ELSE <<mosaic_name>>

\* lines 670-674, 890-894: Python indexes from 0, parts[2] is the third part
MosaicDate(mosaic_name) ==
    LET mosaic_parts == SplitUnderscore(mosaic_name)
    IN  IF Len(mosaic_parts) >= 4 /\ mosaic_parts[3] \in {"2024"}
        THEN <<mosaic_parts[3], mosaic_parts[4]>>
        ELSE <<"unknown_date">>

\* lines 850-856 with the week of the image in place of its date
SceneObjectKeyByWeek(aoi_name, img) ==
    <<"planetscope analytic", "four_bands", aoi_name, img.week_start, img.scene_id,
      ".tiff">>

\* lines 651-654, 850-856
SceneObjectKey(aoi_name, img) ==
    <<"planetscope analytic", "four_bands", aoi_name, img.date, img.scene_id, ".tiff">>

\* lines 675-679, 896-907
MosaicObjectKey(aoi_name, mosaic_date, filename) ==
    <<"basemaps", aoi_name, mosaic_date, filename>>

\* lines 697-700, 942-945
MetadataKey(basemap, aoi_name, mosaic_date) ==
    IF basemap
    THEN <<"basemaps", aoi_name, mosaic_date,
           [date |-> <<>>, words |-> <<"metadata">>, ext |-> ".json"]>>
    ELSE <<"planetscope analytic", "four_bands", aoi_name, "metadata.json">>

\* the scene flow and the mosaic flow (lines 618, 669, 819, 889)
IsSceneFlow(order_type, num_bands) == order_type = "PSScope" /\ num_bands = "four_bands"
IsMosaicFlow(is_basemap, order_type) == is_basemap \/ order_type = "Basemap (Composite)"

\* lines 622-655, 677-679: what the order delivers, as [key, url] in the
\* order of transfer
RECURSIVE MosaicItems(_, _, _, _)
MosaicItems(download_links, k, aoi_name, mosaic_date) ==
    IF k > Len(download_links) THEN <<>>
    ELSE <<[key |-> MosaicObjectKey(aoi_name, mosaic_date, Basename(download_links[k].name)),
            url |-> download_links[k].location]>>
         \o MosaicItems(download_links, k + 1, aoi_name, mosaic_date)

RECURSIVE SceneItems(_, _)
SceneItems(images, aoi_name) ==
    IF images = <<>> THEN <<>>
    ELSE <<[key |-> SceneObjectKey(aoi_name, Head(images)), url |-> Head(images).url]>>
         \o SceneItems(Tail(images), aoi_name)

ItemsToTransfer(m, is_basemap, download_links) ==
    IF IsSceneFlow(m.order_type, m.num_bands)
    THEN SceneItems(WeeklyImages(download_links), m.aoi_name)
    ELSE IF IsMosaicFlow(is_basemap, m.order_type)
    THEN MosaicItems(download_links, 1, m.aoi_name, MosaicDate(m.mosaic_name))
    ELSE <<>>

\* dict.get(field, default)
Get(o, field, default) == IF field \in DOMAIN o THEN o[field] ELSE default

\* lines 590-609: what check_order_status knows of the order; a ledger that
\* cannot be read or searched leaves the defaults of lines 590-594
SingleOrderMetadata(led, order_id) ==
    IF led.state # "list"
    THEN [aoi_name |-> "UnknownAOI", mosaic_name |-> "UnknownMosaic",
          order_type |-> "Unknown", num_bands |-> "four_bands"]
    ELSE LET hits == { i \in 1..Len(led.orders) : led.orders[i].order_id = order_id }
             match == IF hits = {} THEN << >>
                      ELSE led.orders[CHOOSE i \in hits : \A j \in hits : i <= j]
         IN  [aoi_name |-> normalize_aoi_name(Get(match, "aoi_name", "UnknownAOI")),
              mosaic_name |-> Get(match, "mosaic_name", "unknown_mosaic"),
              order_type |-> Get(match, "order_type", "Unknown"),
              num_bands |-> Get(match, "num_bands", "four_bands")]

\* lines 797-800: the same from the ledger record of a batch member
BatchOrderMetadata(order) ==
    [aoi_name |-> normalize_aoi_name(Get(order, "aoi_name", "UnknownAOI")),
     mosaic_name |-> Get(order, "mosaic_name", "unknown_mosaic"),
     order_type |-> Get(order, "order_type", "Unknown"),
     num_bands |-> Get(order, "num_bands", "four_bands")]

\* the destination holds an object under the key
KeyExists(objects, where, key) ==
    \E o \in objects : o.where = where /\ o.key = key

\* upload_fileobj, put_object, open(path, 'wb'): the key holds the new body
Put(objects, where, key, body) ==
    { o \in objects : ~(o.where = where /\ o.key = key) }
        \cup { [where |-> where, key |-> key, body |-> body] }

\* lines 587, 791 with a failed order taken for a finished one
OrderReadyUnlessQueued(order_state) == order_state \notin {"queued", "running"}

\* lines 587, 791: only the state success lets the command go on
OrderReady(order_state) == order_state = "success"

NoFault == [op |-> "none", url |-> ""]

\* lines 656-668, 871-887: the download of one artifact and its write.  st
\* is [events, store, raised]; an exception of requests.get leaves the loop
Transfer(st, order_id, item, fault, where) ==
    IF fault = [op |-> "download_raises", url |-> item.url]
    THEN [st EXCEPT !.events = Append(@, [op |-> "download", order_id |-> order_id,
                                          url |-> item.url, status |-> 0]),
                    !.raised = TRUE]
    ELSE IF fault = [op |-> "download_status", url |-> item.url]
    THEN [st EXCEPT !.events = Append(@, [op |-> "download", order_id |-> order_id,
                                          url |-> item.url, status |-> 404])]
    ELSE IF fault = [op |-> "write_raises", url |-> item.url]
    THEN [st EXCEPT !.events = @ \o <<[op |-> "download", order_id |-> order_id,
                                       url |-> item.url, status |-> 200],
                                      [op |-> "write", order_id |-> order_id,
                                       where |-> where, key |-> item.key,
                                       done |-> FALSE]>>]
    ELSE [st EXCEPT !.events = @ \o <<[op |-> "download", order_id |-> order_id,
                                       url |-> item.url, status |-> 200],
                                      [op |-> "write", order_id |-> order_id,
                                       where |-> where, key |-> item.key,
                                       done |-> TRUE]>>,
                    !.store = Put(@, where, item.key, <<"content", item.url>>)]

\* lines 855-887 without the existence check of lines 858, 865
TransferAlways(st, order_id, item, fault, where, overwrite) ==
    Transfer(st, order_id, item, fault, where)

\* lines 855-869: the existence check of batch_check_status before a transfer
TransferUnlessExists(st, order_id, item, fault, where, overwrite) ==
    IF overwrite THEN Transfer(st, order_id, item, fault, where)
    ELSE IF KeyExists(st.store, where, item.key)
    THEN [st EXCEPT !.events = Append(@, [op |-> "exists", order_id |-> order_id,
                                          where |-> where, key |-> item.key,
                                          found |-> TRUE])]
    ELSE Transfer([st EXCEPT !.events = Append(@, [op |-> "exists", order_id |-> order_id,
                                                   where |-> where, key |-> item.key,
                                                   found |-> FALSE])],
                  order_id, item, fault, where)

\* lines 652-668, 677-693 (check = FALSE) and 852-887, 903-938 (check = TRUE)
RECURSIVE TransferAll(_, _, _, _, _, _, _, _)
TransferAll(st, order_id, items, k, fault, where, check_exists, overwrite) ==
    IF k > Len(items) \/ st.raised THEN st
    ELSE TransferAll(
             IF check_exists
             THEN TransferUnlessExists(st, order_id, items[k], fault, where, overwrite)
             ELSE Transfer(st, order_id, items[k], fault, where),
             order_id, items, k + 1, fault, where, check_exists, overwrite)

\* the name mosaic_date after the flows: only the mosaic flow binds it
MosaicDateAfter(before, m, is_basemap) ==
    IF ~IsSceneFlow(m.order_type, m.num_bands) /\ IsMosaicFlow(is_basemap, m.order_type)
    THEN MosaicDate(m.mosaic_name)
    ELSE before

\* lines 694-708, 940-959: the order-status document is written; reading
\* the unbound name mosaic_date raises NameError
SaveMetadata(st, doc, m, is_basemap, mosaic_date, fault, where) ==
    IF IsMosaicFlow(is_basemap, m.order_type) /\ mosaic_date = <<"unbound">>
    THEN [st EXCEPT !.raised = TRUE]
    ELSE IF fault.op = "metadata_raises"
    THEN [st EXCEPT !.events = Append(@, [op |-> "metadata", order_id |-> doc.id,
              where |-> where, done |-> FALSE,
              key |-> MetadataKey(IsMosaicFlow(is_basemap, m.order_type),
                                  m.aoi_name, mosaic_date)]),
                    !.raised = TRUE]
    ELSE [st EXCEPT !.events = Append(@, [op |-> "metadata", order_id |-> doc.id,
              where |-> where, done |-> TRUE,
              key |-> MetadataKey(IsMosaicFlow(is_basemap, m.order_type),
                                  m.aoi_name, mosaic_date)]),
                    !.store = Put(@, where,
                                  MetadataKey(IsMosaicFlow(is_basemap, m.order_type),
                                              m.aoi_name, mosaic_date),
                                  <<"json", doc>>)]

\* the poll of lines 577, 780 as an event
PollEvent(order_id, answer) ==
    [op |-> "poll", order_id |-> order_id,
     status |-> IF answer.kind = "exception" THEN 0 ELSE answer.status,
     state |-> IF answer.kind = "response" /\ answer.status = 200
               THEN answer.doc.state ELSE "none"]

\* what check_order_status leaves behind
SingleResult(st, raised, printed) ==
    [events |-> st.events, store |-> st.store, raised |-> raised, printed |-> printed]

\* lines 694-710 after the transfers of lines 618-693: an exception of a
\* download is caught nowhere, one of the metadata step is caught at line 707
SingleAfterTransfers(st, doc, m, fault) ==
    IF st.raised THEN SingleResult(st, TRUE, "Traceback")
    ELSE SingleResult(
             SaveMetadata(st, doc, m, doc.source_type = "basemaps",
                          MosaicDateAfter(<<"unbound">>, m, doc.source_type = "basemaps"),
                          fault, "s3"),
             FALSE, "Order processing complete!")

\* lines 575-710
check_order_status(order_id, answer, led, fault, objects) ==
    IF answer.kind = "exception"
    THEN SingleResult([events |-> <<PollEvent(order_id, answer)>>, store |-> objects],
                      TRUE, "Traceback")
    ELSE IF answer.status # 200
    THEN SingleResult([events |-> <<PollEvent(order_id, answer)>>, store |-> objects],
                      FALSE, "Error checking order status")
    ELSE IF ~OrderReady(answer.doc.state)
    THEN SingleResult([events |-> <<PollEvent(order_id, answer)>>, store |-> objects],
                      FALSE, "Order Status")
    ELSE IF answer.doc.results = <<>>
    THEN SingleResult([events |-> <<PollEvent(order_id, answer)>>, store |-> objects],
                      FALSE, "No downloadable files found.")
    ELSE SingleAfterTransfers(
             TransferAll([events |-> <<PollEvent(order_id, answer)>>,
                          store |-> objects, raised |-> FALSE],
                         order_id,
                         ItemsToTransfer(SingleOrderMetadata(led, order_id),
                                         answer.doc.source_type = "basemaps",
                                         answer.doc.results),
                         1, fault, "s3", FALSE, FALSE),
             answer.doc, SingleOrderMetadata(led, order_id), fault)

\* line 812
UseS3(output) == output \in {"s3", "S3"}
Destination(output) == IF UseS3(output) THEN "s3" ELSE "local"

\* what one pass of the loop of lines 770-965 leaves behind
UnitResult(st, outcome, error, mosaic_date) ==
    [events |-> st.events, store |-> st.store, outcome |-> outcome,
     error |-> error, mosaic_date |-> mosaic_date]

\* lines 940-965 after the transfers of lines 819-938
UnitAfterMetadata(st, mosaic_date) ==
    IF st.raised THEN UnitResult(st, "failed", "exception", mosaic_date)
    ELSE UnitResult(st, "success", "", mosaic_date)

UnitAfterTransfers(st, doc, m, fault, where, mosaic_date) ==
    IF st.raised THEN UnitResult(st, "failed", "exception", mosaic_date)
    ELSE UnitAfterMetadata(
             SaveMetadata(st, doc, m, doc.source_type = "basemaps", mosaic_date,
                          fault, where),
             mosaic_date)

\* lines 770-965 for one member of the batch; c is the command so far
check_batch_order(order, answer, fault, c, st) ==
    IF answer.kind = "exception"
    THEN UnitResult(st, "raised", "exception", c.mosaic_date)
    ELSE IF answer.status # 200
    THEN UnitResult(st, "failed", answer.text, c.mosaic_date)
    ELSE IF ~OrderReady(answer.doc.state)
    THEN UnitResult(st, "pending", answer.doc.state, c.mosaic_date)
    ELSE IF answer.doc.results = <<>>
    THEN UnitResult(st, "failed", "No downloadable files", c.mosaic_date)
    ELSE UnitAfterTransfers(
             TransferAll(st, order.order_id,
                         ItemsToTransfer(BatchOrderMetadata(order),
                                         answer.doc.source_type = "basemaps",
                                         answer.doc.results),
                         1, fault, Destination(c.output), TRUE, c.overwrite),
             answer.doc, BatchOrderMetadata(order), fault, Destination(c.output),
             MosaicDateAfter(c.mosaic_date, BatchOrderMetadata(order),
                             answer.doc.source_type = "basemaps"))

(* The remote side and the inputs of the status commands. *)

File(date, words, ext) == [date |-> date, words |-> words, ext |-> ext]
Link(dir, file, location) == [name |-> <<dir, file>>, location |-> location]

\* 2024-03-03 is a Sunday; 03-05 is in its week, 03-12 in the next; a mask,
\* an .xml sidecar and the manifest come with the images
SceneLinks ==
    << Link("files", File(<<2024, 3, 5>>, <<"s2", "AnalyticMS", "clip">>, ".tif"), "url-2"),
       Link("files", File(<<2024, 3, 3>>, <<"s1", "udm2", "clip">>, ".tif"), "url-3"),
       Link("files", File(<<2024, 3, 3>>, <<"s1", "AnalyticMS", "clip">>, ".tif"), "url-1"),
       Link("files", File(<<2024, 3, 12>>, <<"s4", "AnalyticMS", "clip">>, ".tif"), "url-4"),
       Link("files", File(<<2024, 3, 12>>, <<"s4", "AnalyticMS", "metadata", "clip">>, ".xml"),
            "url-7"),
       Link("", File(<<>>, <<"manifest">>, ".json"), "url-8") >>

MosaicLinks ==
    << Link("quads", File(<<>>, <<"quad1">>, ".tif"), "url-5"),
       Link("quads", File(<<>>, <<"quad2">>, ".tif"), "url-6"),
       Link("previews", File(<<>>, <<"quad1">>, ".tif"), "url-9") >>

\* the order-status document of lines 583, 787; source_type "scenes" stands
\* for a document without that field
Doc(order_id, state, source_type, results) ==
    [id |-> order_id, state |-> state, source_type |-> source_type, results |-> results]

\* what the order endpoint may answer to a poll of the order
PollAnswers(order_id) ==
    { [kind |-> "exception"],
      [kind |-> "response", status |-> 404, text |-> "Not found"],
      [kind |-> "response", status |-> 200, text |-> "",
       doc |-> Doc(order_id, "queued", "scenes", <<>>)],
      [kind |-> "response", status |-> 200, text |-> "",
       doc |-> Doc(order_id, "running", "scenes", SceneLinks)],
      [kind |-> "response", status |-> 200, text |-> "",
       doc |-> Doc(order_id, "failed", "scenes", SceneLinks)],
      [kind |-> "response", status |-> 200, text |-> "",
       doc |-> Doc(order_id, "success", "scenes", <<>>)],
      [kind |-> "response", status |-> 200, text |-> "",
       doc |-> Doc(order_id, "success", "scenes", SceneLinks)],
      [kind |-> "response", status |-> 200, text |-> "",
       doc |-> Doc(order_id, "success", "basemaps", MosaicLinks)] }

\* what may go wrong with a transfer: the first artifact of a flow, or the
\* metadata step
Faults ==
    { NoFault, [op |-> "metadata_raises", url |-> ""] }
        \cup { [op |-> op, url |-> url] :
                   op \in {"download_status", "download_raises", "write_raises"},
                   url \in {"url-1", "url-5"} }

\* two chunks of gage1 ordered by one batch_submit, and a basemap order
StatusUnit(start_date, end_date) ==
    [gage_id |-> "gage1", start_date |-> start_date, end_date |-> end_date,
     num_bands |-> "four_bands", product_bundle |-> "ortho_analytic_4b_sr",
     product_bundle_order |-> "analytic_sr_udm2", aoi_area_sqkm |-> 2,
     batch_id |-> NewBatchId(1)]

StatusOrders ==
    << [WithBatchId(StatusUnit(<<"-", 2024, 3, 1>>, <<"-", 2024, 3, 31>>),
                    OrderLog(StatusUnit(<<"-", 2024, 3, 1>>, <<"-", 2024, 3, 31>>), 1, 2))
           EXCEPT !.timestamp = "now"],
       [WithBatchId(StatusUnit(<<"-", 2024, 4, 1>>, <<"-", 2024, 4, 30>>),
                    OrderLog(StatusUnit(<<"-", 2024, 4, 1>>, <<"-", 2024, 4, 30>>), 2, 2))
           EXCEPT !.timestamp = "now"],
       [order_id |-> 3, order_type |-> "Basemap (Composite)",
        aoi_name |-> normalize_aoi_name("DrySpy_AOI_site2"),
        mosaic_name |-> "global_monthly_2024_03_mosaic",
        start_date |-> "N/A", end_date |-> "N/A", timestamp |-> "now"] >>

StatusLedgers ==
    { [state |-> "absent", orders |-> <<>>],
      [state |-> "malformed", orders |-> <<>>],
      [state |-> "object", orders |-> <<>>],
      [state |-> "list", orders |-> StatusOrders] }

PolledIds == {1, 3, 9}
BatchIds == {NewBatchId(1), NewBatchId(7)}
Outputs == {"s3", "./downloads"}

StatusInit ==
    /\ ledger \in StatusLedgers
    /\ accepted = {}
    /\ nextId = 1
    /\ last = NoCommand("idle")
    /\ batch = NoBatch
    /\ store = {}
    /\ events = <<>>
    /\ check = [pc |-> "idle", runs |-> 0]

StatusIdle ==
    /\ store = {}
    /\ events = <<>>
    /\ check = [pc |-> "idle", runs |-> 0]

\* the state after check_order_status returned r
SingleReturns(order_id, r) ==
    /\ events' = r.events
    /\ store' = r.store
    /\ check' = [pc |-> IF r.raised THEN "exit" ELSE "returned",
                 cmd |-> "check_order_status", runs |-> check.runs,
                 order_id |-> order_id, printed |-> r.printed,
                 exit_code |-> IF r.raised THEN 1 ELSE 0]

\* the check-order-status command, from its argument to its exit
CheckOrderStatus ==
    /\ check.pc = "idle"
    /\ check.runs < MaxRuns
    /\ \E order_id \in PolledIds, fault \in Faults :
          \E answer \in PollAnswers(order_id) :
              SingleReturns(order_id,
                            check_order_status(order_id, answer, ledger, fault, store))
    /\ UNCHANGED orderVars

\* a batch_check_status that ended before its loop (lines 731-759)
CheckEnded(pc, printed) ==
    [pc |-> pc, cmd |-> "batch_check_status", runs |-> check.runs,
     printed |-> printed, exit_code |-> IF pc = "exit" THEN 1 ELSE 0]

\* line 747
BatchOrders(led, batch_id) ==
    SelectSeq(led.orders, LAMBDA o : Get(o, "batch_id", <<>>) = batch_id)

\* lines 731-768 of batch_check_status: the members of the batch.  What is
\* read from an object is its keys, and a string has no get
BatchCheckStart ==
    /\ check.pc = "idle"
    /\ check.runs < MaxRuns
    /\ \E batch_id \in BatchIds, api_key \in {"", "key"}, overwrite \in BOOLEAN,
          output \in Outputs :
           check' =
               IF api_key = "" THEN CheckEnded("returned", "Error: API key is missing.")
               ELSE IF ledger.state = "absent"
               THEN CheckEnded("returned", "Error: orders.json not found.")
               ELSE IF ledger.state = "malformed"
               THEN CheckEnded("returned", "Error reading orders.json")
               ELSE IF ledger.state = "object" THEN CheckEnded("exit", "Traceback")
               ELSE IF BatchOrders(ledger, batch_id) = <<>>
               THEN CheckEnded("returned", "No orders found with batch_id")
               ELSE [pc |-> "run", cmd |-> "batch_check_status", runs |-> check.runs,
                     batch_id |-> batch_id, overwrite |-> overwrite, output |-> output,
                     orders |-> BatchOrders(ledger, batch_id), i |-> 1,
                     success |-> <<>>, pending |-> <<>>, failed |-> <<>>,
                     mosaic_date |-> <<"unbound">>, exit_code |-> 0]
    /\ events' = <<>>
    /\ UNCHANGED store
    /\ UNCHANGED orderVars

\* the state after one pass of the loop that left r
UnitChecked(order, r) ==
    /\ events' = r.events
    /\ store' = r.store
    /\ check' =
           IF r.outcome = "raised"
           THEN [check EXCEPT !.pc = "exit", !.exit_code = 1]
           ELSE [check EXCEPT
                    !.i = @ + 1,
                    !.mosaic_date = r.mosaic_date,
                    !.success = IF r.outcome = "success" THEN Append(@, order) ELSE @,
                    !.pending = IF r.outcome = "pending"
                                THEN Append(@, [order_id |-> order.order_id,
                                                state |-> r.error])
                                ELSE @,
                    !.failed = IF r.outcome = "failed"
                               THEN Append(@, [order_id |-> order.order_id,
                                               error |-> r.error])
                               ELSE @]

\* lines 770-965: the next member of the batch is polled and, when ready,
\* fetched
BatchCheckUnit ==
    /\ check.pc = "run"
    /\ check.i <= Len(check.orders)
    /\ \E fault \in Faults :
          \E answer \in PollAnswers(check.orders[check.i].order_id) :
              UnitChecked(check.orders[check.i],
                  check_batch_order(check.orders[check.i], answer, fault, check,
                      [events |-> Append(events,
                                      PollEvent(check.orders[check.i].order_id, answer)),
                       store |-> store, raised |-> FALSE]))
    /\ UNCHANGED orderVars

\* lines 967-982: the summary
BatchCheckFinish ==
    /\ check.pc = "run"
    /\ check.i > Len(check.orders)
    /\ check' = [check EXCEPT !.pc = "done"]
    /\ UNCHANGED <<events, store>>
    /\ UNCHANGED orderVars

\* the process of the status command ends; the destination outlives it
CheckExit ==
    /\ check.pc \in {"returned", "done", "exit"}
    /\ check' = [pc |-> "idle", runs |-> check.runs + 1]
    /\ events' = <<>>
    /\ UNCHANGED store
    /\ UNCHANGED orderVars


(***************************************************************************)
(* Specifications                                                           *)
(***************************************************************************)
(* log_order in two processes on one ledger file, statement by statement.  *)
(* logFile is the file as the ledger of the commands: [state, orders]; a   *)
(* file that was opened for writing and not yet dumped holds no JSON text  *)
(* (state "malformed").  writers[p] is [pc, orders, seen]: orders is the    *)
(* list in the memory of the process, seen the writers that had finished   *)
(* when it read the file.                                                   *)
(***************************************************************************)

Writers == {1, 2}

\* the entry that writer p logs, and the entry of an earlier order
LogEntry(p) == [order_id |-> p, timestamp |-> "submitted"]
EarlierEntry == [order_id |-> 0, timestamp |-> "now"]

LogInit ==
    /\ logFile \in { [state |-> "absent", orders |-> <<>>],
                     [state |-> "malformed", orders |-> <<>>],
                     [state |-> "object", orders |-> <<>>],
                     [state |-> "list", orders |-> <<>>],
                     [state |-> "list", orders |-> <<EarlierEntry>>] }
    /\ writers = [p \in Writers |-> [pc |-> "start", orders |-> <<>>, seen |-> {}]]

LogIdle ==
    /\ logFile = [state |-> "absent", orders |-> <<>>]
    /\ writers = <<>>

\* lines 51-61: the file is read, the entry is appended in memory
LogRead(p) ==
    /\ writers[p].pc = "start"
    /\ writers' = [writers EXCEPT ![p] =
           IF log_order_raises(logFile)
           THEN [@ EXCEPT !.pc = "raised"]
           ELSE [pc |-> "read", orders |-> log_order(logFile, LogEntry(p)).orders,
                 seen |-> { q \in Writers : writers[q].pc = "done" }]]
    /\ UNCHANGED logFile

\* line 62: open("w") truncates the file
LogOpenForWriting(p) ==
    /\ writers[p].pc = "read"
    /\ writers' = [writers EXCEPT ![p].pc = "opened"]
    /\ logFile' = [state |-> "malformed", orders |-> <<>>]

\* line 63 and the end of the with block: the list is dumped and flushed
LogDump(p) ==
    /\ writers[p].pc = "opened"
    /\ writers' = [writers EXCEPT ![p].pc = "done"]
    /\ logFile' = [state |-> "list", orders |-> writers[p].orders]

\* the process is interrupted (killed, power loss) at any statement
LogInterrupted(p) ==
    /\ writers[p].pc \in {"start", "read", "opened"}
    /\ writers' = [writers EXCEPT ![p].pc = "interrupted"]
    /\ UNCHANGED logFile

(***************************************************************************)

InitChunk == ChunkInit /\ WeekIdle /\ SelIdle /\ FetchIdle /\ OrdersIdle /\ BundleIdle /\ StatusIdle /\ LogIdle
NextChunk ==
    \/ SubdivideIterate /\ UNCHANGED <<weekVars, selVars, fetchVars, orderVars, bundleVars, statusVars, logVars>>
    \/ SubdivideReturn /\ UNCHANGED <<weekVars, selVars, fetchVars, orderVars, bundleVars, statusVars, logVars>>
SpecChunk == InitChunk /\ [][NextChunk]_vars
\* line 160: the condition of the while loop
LoopCondition == cPc = "loop" /\ DateLE(cCur, StrptimeDash(cEnd))

\* the loop of lines 160-174 is one thread that takes its next step: weak
\* fairness of the return, and weak fairness of the iteration with its
\* enabling condition written out as the loop condition
SpecChunkFair ==
    /\ SpecChunk
    /\ WF_chunkVars(SubdivideReturn)
    /\ ([]<>(~LoopCondition) \/ []<><<SubdivideIterate>>_chunkVars)

\* the same loop for any value of the option; the model follows a loop
\* that does not end for MaxChunks iterations
InitChunkAny == ChunkInitAnyMonths /\ WeekIdle /\ SelIdle /\ FetchIdle /\ OrdersIdle /\ BundleIdle /\ StatusIdle /\ LogIdle
NextChunkAny ==
    \/ Len(cChunks) < MaxChunks /\ SubdivideIterate /\ UNCHANGED <<weekVars, selVars, fetchVars, orderVars, bundleVars, statusVars, logVars>>
    \/ SubdivideReturn /\ UNCHANGED <<weekVars, selVars, fetchVars, orderVars, bundleVars, statusVars, logVars>>
SpecChunkAny == InitChunkAny /\ [][NextChunkAny]_vars

InitWeek == WeekInit /\ ChunkIdle /\ SelIdle /\ FetchIdle /\ OrdersIdle /\ BundleIdle /\ StatusIdle /\ LogIdle
NextWeek ==
    \/ WeekAtSelection /\ UNCHANGED <<chunkVars, selVars, fetchVars, orderVars, bundleVars, statusVars, logVars>>
    \/ WeekAtFetch /\ UNCHANGED <<chunkVars, selVars, fetchVars, orderVars, bundleVars, statusVars, logVars>>
SpecWeek == InitWeek /\ [][NextWeek]_vars

InitSelect == SelInit /\ ChunkIdle /\ WeekIdle /\ FetchIdle /\ OrdersIdle /\ BundleIdle /\ StatusIdle /\ LogIdle
NextSelect ==
    \/ SelectInSingleOrder /\ UNCHANGED <<chunkVars, weekVars, fetchVars, orderVars, bundleVars, statusVars, logVars>>
    \/ SelectInSubmit /\ UNCHANGED <<chunkVars, weekVars, fetchVars, orderVars, bundleVars, statusVars, logVars>>
    \/ SelectInSearchScenes /\ UNCHANGED <<chunkVars, weekVars, fetchVars, orderVars, bundleVars, statusVars, logVars>>
SpecSelect == InitSelect /\ [][NextSelect]_vars

InitFetch == FetchInit /\ ChunkIdle /\ WeekIdle /\ SelIdle /\ OrdersIdle /\ BundleIdle /\ StatusIdle /\ LogIdle
NextFetch ==
    \/ FetchPageWithNext /\ UNCHANGED <<chunkVars, weekVars, selVars, orderVars, bundleVars, statusVars, logVars>>
    \/ FetchLastPage /\ UNCHANGED <<chunkVars, weekVars, selVars, orderVars, bundleVars, statusVars, logVars>>
    \/ FetchPageFails /\ UNCHANGED <<chunkVars, weekVars, selVars, orderVars, bundleVars, statusVars, logVars>>
SpecFetch == InitFetch /\ [][NextFetch]_vars

InitBundle == BundleInit /\ ChunkIdle /\ WeekIdle /\ SelIdle /\ FetchIdle /\ OrdersIdle /\ StatusIdle /\ LogIdle
NextBundle ==
    \/ ResolveInSubmit /\ UNCHANGED <<chunkVars, weekVars, selVars, fetchVars, orderVars, statusVars, logVars>>
    \/ ResolveInSearchScenes /\ UNCHANGED <<chunkVars, weekVars, selVars, fetchVars, orderVars, statusVars, logVars>>
    \/ ResolveInBatch /\ UNCHANGED <<chunkVars, weekVars, selVars, fetchVars, orderVars, statusVars, logVars>>
SpecBundle == InitBundle /\ [][NextBundle]_vars

InitStatus == StatusInit /\ ChunkIdle /\ WeekIdle /\ SelIdle /\ FetchIdle /\ BundleIdle /\ LogIdle
NextStatus ==
    \/ CheckOrderStatus /\ UNCHANGED <<chunkVars, weekVars, selVars, fetchVars, bundleVars, logVars>>
    \/ BatchCheckStart /\ UNCHANGED <<chunkVars, weekVars, selVars, fetchVars, bundleVars, logVars>>
    \/ BatchCheckUnit /\ UNCHANGED <<chunkVars, weekVars, selVars, fetchVars, bundleVars, logVars>>
    \/ BatchCheckFinish /\ UNCHANGED <<chunkVars, weekVars, selVars, fetchVars, bundleVars, logVars>>
    \/ CheckExit /\ UNCHANGED <<chunkVars, weekVars, selVars, fetchVars, bundleVars, logVars>>
SpecStatus == InitStatus /\ [][NextStatus]_vars

InitLog == LogInit /\ ChunkIdle /\ WeekIdle /\ SelIdle /\ FetchIdle /\ OrdersIdle /\ BundleIdle /\ StatusIdle
NextLog ==
    \/ \E p \in Writers : LogRead(p) /\ UNCHANGED <<chunkVars, weekVars, selVars, fetchVars, orderVars, bundleVars, statusVars>>
    \/ \E p \in Writers : LogOpenForWriting(p) /\ UNCHANGED <<chunkVars, weekVars, selVars, fetchVars, orderVars, bundleVars, statusVars>>
    \/ \E p \in Writers : LogDump(p) /\ UNCHANGED <<chunkVars, weekVars, selVars, fetchVars, orderVars, bundleVars, statusVars>>
    \/ \E p \in Writers : LogInterrupted(p) /\ UNCHANGED <<chunkVars, weekVars, selVars, fetchVars, orderVars, bundleVars, statusVars>>
SpecLog == InitLog /\ [][NextLog]_vars

otherVars == <<chunkVars, weekVars, selVars, fetchVars, bundleVars, statusVars, logVars>>
Init == OrdersInit /\ ChunkIdle /\ WeekIdle /\ SelIdle /\ FetchIdle /\ BundleIdle /\ StatusIdle /\ LogIdle
Next ==
    \/ BatchStart /\ UNCHANGED otherVars
    \/ BatchUnit /\ UNCHANGED otherVars
    \/ BatchFinish /\ UNCHANGED otherVars
    \/ BatchExit /\ UNCHANGED otherVars
    \/ Submit /\ UNCHANGED otherVars
    \/ OrderBasemap /\ UNCHANGED otherVars
Spec == Init /\ [][Next]_vars

(***************************************************************************)
(* Properties of subdivide_date_range                                       *)
(***************************************************************************)

ChunkPre == DateLE(StrptimeDash(cStart), StrptimeDash(cEnd)) /\ cMonths >= 1

ChunkOrds ==
    [i \in 1..Len(cChunks) |->
        <<ToOrdinal(StrptimeDash(cChunks[i][1])), ToOrdinal(StrptimeDash(cChunks[i][2]))>>]

\* C4: for start <= end and max_months >= 1 the chunks are ascending, the
\* first starts on start, each next one starts the day after the previous
\* one ended, the last ends on end, and every day of [start, end] lies in
\* exactly one chunk.
C4_ChunksPartitionRange ==
    ChunkPre =>
        LET o == ChunkOrds
            n == Len(cChunks)
        IN  /\ \A i \in 1..n : o[i][1] <= o[i][2]
            /\ n >= 1 => cChunks[1][1] = cStart
            /\ \A i \in 1..(n - 1) : o[i + 1][1] = o[i][2] + 1
            /\ cPc = "done" =>
                   /\ n >= 1
                   /\ cChunks[n][2] = cEnd
                   /\ \A day \in ToOrdinal(StrptimeDash(cStart))..ToOrdinal(StrptimeDash(cEnd)) :
                          Cardinality({i \in 1..n : o[i][1] <= day /\ day <= o[i][2]}) = 1

C4_Witness ==
    /\ cPc = "done"
    /\ Len(cChunks) >= 3
    /\ cMonths = 2

MonthIndex(dt) == dt[1] * 12 + dt[2]

\* C5: every chunk ends on the earlier of (its start + max_months calendar
\* months - 1 day) and the overall end, so it spans at most max_months
\* calendar months; every chunk but the last spans exactly max_months;
\* 2020-01-15..2021-03-01 by 6 gives the three chunks of the example, and
\* start = end gives one single-day chunk.
C5_ChunkEndsByCalendarMonths ==
    ChunkPre =>
        /\ \A i \in 1..Len(cChunks) :
               LET s == StrptimeDash(cChunks[i][1])
                   e == StrptimeDash(cChunks[i][2])
                   byMonths == AddDays(AddMonths(s, cMonths), -1)
                   diff == MonthIndex(e) - MonthIndex(s)
               IN  /\ e = (IF DateLT(StrptimeDash(cEnd), byMonths)
                           THEN StrptimeDash(cEnd) ELSE byMonths)
                   /\ diff < cMonths \/ (diff = cMonths /\ e[3] < s[3])
                   /\ i < Len(cChunks) => AddDays(e, 1) = AddMonths(s, cMonths)
        /\ (cPc = "done" /\ cStart = <<"-", 2020, 1, 15>>
                /\ cEnd = <<"-", 2021, 3, 1>> /\ cMonths = 6) =>
               cChunks = << <<<<"-", 2020, 1, 15>>, <<"-", 2020, 7, 14>>>>,
                            <<<<"-", 2020, 7, 15>>, <<"-", 2021, 1, 14>>>>,
                            <<<<"-", 2021, 1, 15>>, <<"-", 2021, 3, 1>>>> >>
        /\ (cPc = "done" /\ cStart = cEnd) => cChunks = << <<cStart, cEnd>> >>

C5_Witness ==
    /\ cPc = "done"
    /\ cStart = <<"-", 2020, 1, 15>>
    /\ cEnd = <<"-", 2021, 3, 1>>
    /\ cMonths = 6
    /\ Len(cChunks) = 3

(***************************************************************************)
(* Properties of the week rule                                              *)
(***************************************************************************)

KeyDate(key) == <<key[2], key[3], key[4]>>

\* C9: both week keys of a date d are the latest Sunday <= d: d itself when
\* d is a Sunday, otherwise the Sunday 1 to 6 days before (2024-03-14 maps
\* to 2024-03-10); so the two rules agree on the bucket of every date.
C9_WeekKeysAreLatestSunday ==
    /\ wSelKey # <<>> =>
           LET s == KeyDate(wSelKey)
           IN  /\ Weekday(s) = 6
               /\ ToOrdinal(wDate) - ToOrdinal(s) \in 0..6
               /\ wDate = <<2024, 3, 14>> => s = <<2024, 3, 10>>
    /\ wFetchKey # <<>> =>
           LET s == KeyDate(wFetchKey)
           IN  /\ Weekday(s) = 6
               /\ ToOrdinal(wDate) - ToOrdinal(s) \in 0..6
               /\ wDate = <<2024, 3, 14>> => s = <<2024, 3, 10>>
    /\ (wSelKey # <<>> /\ wFetchKey # <<>>) => KeyDate(wSelKey) = KeyDate(wFetchKey)

C9_Witness ==
    /\ wDate = <<2024, 3, 14>>
    /\ wSelKey = <<"-", 2024, 3, 10>>
    /\ wFetchKey = <<"_", 2024, 3, 10>>

(***************************************************************************)
(* Properties of the selection step                                         *)
(***************************************************************************)

SeqRange(q) == { q[i] : i \in 1..Len(q) }

EligibleScenes == { f \in SeqRange(sFeatures) : f.cov >= MIN_COV_PCT }

SceneKey(f) == get_interval_key(sCadence, StrptimeDash(AcquiredDate(f)))

\* acquisition timestamps in time order: the day, then the time of day
AcquiredLE(f, g) ==
    \/ DateLT(StrptimeDash(AcquiredDate(f)), StrptimeDash(AcquiredDate(g)))
    \/ /\ AcquiredDate(f) = AcquiredDate(g)
       /\ f.acquired[5] <= g.acquired[5]

SelectedScenes == { sOut.selected[i][1] : i \in 1..Len(sOut.selected) }

\* C6: within each interval key the selected scene covers at least as much
\* as every other eligible scene of that key, and among the scenes tied on
\* the maximum coverage it is the one acquired earliest.
C6_WinnerMaxCoverageEarliestTimestamp ==
    sOut.kind = "selected" =>
        \A w \in SelectedScenes :
            \A g \in EligibleScenes :
                SceneKey(g) = SceneKey(w) =>
                    /\ w.cov >= g.cov
                    /\ g.cov = w.cov => AcquiredLE(w, g)

Permute(features, p) == [i \in 1..Len(features) |-> features[p[i]]]

SelectedIds(selected) == { selected[i][1].id : i \in 1..Len(selected) }

\* C7: the selection holds exactly one scene per interval key that has an
\* eligible candidate, and every permutation of the candidate list selects
\* the same set of scene ids.
C7_OnePerKeyAnyInputOrder ==
    sOut.kind = "selected" =>
        /\ SelectedScenes \subseteq EligibleScenes
        /\ \A k \in { SceneKey(f) : f \in EligibleScenes } :
               Cardinality({ w \in SelectedScenes : SceneKey(w) = k }) = 1
        /\ Cardinality(SelectedScenes) = Len(sOut.selected)
        /\ \A p \in Permutations(1..Len(sFeatures)) :
               SelectedIds(SelectScenes(Permute(sFeatures, p), sCadence))
                   = SelectedIds(sOut.selected)

\* C8: "the search returned no candidates" and "candidates were returned
\* but none passed the coverage threshold" are two distinct reports, never
\* a crash: in submit_single_order two errors, with scenes_found 0 and the
\* number of candidates; in submit and in search_scenes two messages.
C8_EmptyResultsReportedApart ==
    sCmd \in {"submit_single_order", "submit", "search_scenes"} =>
        /\ sOut.kind # "crash"
        /\ sFeatures = <<>> =>
               IF sCmd = "submit_single_order"
               THEN sOut.kind = "error" /\ sOut.scenes_found = 0
                        /\ sOut.error = "No cloud-free scenes found"
               ELSE sOut.kind = "message"
                        /\ sOut.text \in {"No cloud-free PlanetScope scenes found.",
                                          "No scenes found."}
        /\ (sFeatures # <<>> /\ EligibleScenes = {}) =>
               IF sCmd = "submit_single_order"
               THEN sOut.kind = "error" /\ sOut.scenes_found = Len(sFeatures)
                        /\ sOut.error # "No cloud-free scenes found"
               ELSE sOut.kind = "message"
                        /\ sOut.text \notin {"No cloud-free PlanetScope scenes found.",
                                             "No scenes found."}

(***************************************************************************)
(* Properties of fetch_all_search_results                                   *)
(***************************************************************************)

RECURSIVE ConcatFeatures(_)
ConcatFeatures(resps) ==
    IF resps = <<>> THEN <<>>
    ELSE ConcatFeatures(SubSeq(resps, 1, Len(resps) - 1)) \o resps[Len(resps)].features

\* C10: the first request carries the filter payload; each response with a
\* next-page reference is followed by exactly one request to that reference
\* with no payload; the loop stops at the first response without one and
\* returns the features of all pages in page order.
C10_PagesFollowedInOrder ==
    fetch.pc \in {"loop", "returned", "raised"} =>
        LET n == Len(fetch.reqs)
        IN  /\ Len(fResps) = n
            /\ n >= 1 =>
                   fetch.reqs[1] = [method |-> "POST", url |-> SEARCH_URL, payload |-> "filter"]
            /\ \A i \in 2..n :
                   /\ fResps[i - 1].status = 200
                   /\ fResps[i - 1].next # "none"
                   /\ fetch.reqs[i] =
                          [method |-> "GET", url |-> fResps[i - 1].next, payload |-> "none"]
            /\ (fetch.pc = "loop" /\ n >= 1) =>
                   fResps[n].status = 200 /\ fResps[n].next # "none"
            /\ fetch.pc = "returned" =>
                   /\ n >= 1
                   /\ fResps[n].status = 200
                   /\ fResps[n].next = "none"
                   /\ fetch.all = ConcatFeatures(fResps)

C10_Witness ==
    /\ fetch.pc = "returned"
    /\ Len(fetch.reqs) = 3
    /\ fetch.reqs[2].url # fetch.reqs[3].url
    /\ fetch.all = <<"a", "b", "b", "a">>

(***************************************************************************)
(* Properties of the ledger and of the dry run                              *)
(***************************************************************************)

\* the order ids of the entries of the ledger
LedgerIds == { ledger.orders[i].order_id : i \in 1..Len(ledger.orders) }

\* C1: the ledger holds an entry for an order id only if the order endpoint
\* answered that submission with 202; the ledger changes only in a submission
\* that was answered with 202, and then by an entry for the id of that answer;
\* a submission answered with any other status leaves the ledger unchanged.
C1_LedgerOnlyAcceptedOrders ==
    /\ [](LedgerIds \subseteq accepted)
    /\ [][ /\ ledger' # ledger =>
                  /\ last'.posted
                  /\ last'.status = 202
                  /\ ledger'.orders[Len(ledger'.orders)].order_id = nextId
                  /\ accepted' = accepted \cup {nextId}
           /\ (last'.posted /\ last'.status # 202) => ledger' = ledger ]_vars

\* a refused order request after an accepted one: the ledger keeps the entry
\* of the accepted order and gets none for the refused one
C1_Witness ==
    /\ last.posted
    /\ last.status = 400
    /\ Len(ledger.orders) = 1
    /\ accepted = {1}

\* C2: when the ledger is a list, a step that logs an order keeps every
\* earlier entry unchanged at its position and adds exactly one entry at the
\* end, so the earlier ledger is always a prefix of the later one.
C2_LedgerAppendOnly ==
    [][ (ledger.state = "list" /\ ledger' # ledger) =>
            /\ ledger'.state = "list"
            /\ Len(ledger'.orders) = Len(ledger.orders) + 1
            /\ SubSeq(ledger'.orders, 1, Len(ledger.orders)) = ledger.orders ]_vars

\* a second entry was logged after a first one, by another command
C2_Witness ==
    /\ ledger.state = "list"
    /\ Len(ledger.orders) = 2
    /\ ledger.orders[1].order_type # ledger.orders[2].order_type

\* C3: a dry-run call of submit_single_order searches, and when scenes are
\* selected it returns the scene counts and the quota projection (area times
\* selected scenes, times 100 in hectares); it sends no order request and
\* leaves the ledger as it was; no step of a dry-run batch_submit, from its
\* start to its summary, changes the ledger or the orders of the endpoint.
C3_DryRunOrdersNothing ==
    /\ []( (last.cmd = "submit_single_order" /\ last.dry_run) =>
               /\ last.searched >= 1
               /\ ~last.posted
               /\ last.result.success =>
                      /\ last.result.dry_run
                      /\ last.result.scenes_found >= last.result.scenes_selected
                      /\ last.result.scenes_selected = Len(last.result.item_ids)
                      /\ last.result.scenes_selected >= 1
                      /\ last.result.quota_sqkm =
                             last.result.aoi_area_sqkm * last.result.scenes_selected
                      /\ last.result.quota_hectares = last.result.quota_sqkm * 100 )
    /\ []( (batch.pc # "idle" /\ batch.dry_run) => batch.posts = 0 )
    /\ [][ (batch'.pc # "idle" /\ batch'.dry_run) =>
               /\ ledger' = ledger
               /\ accepted' = accepted
               /\ nextId' = nextId ]_vars

\* a whole dry run over a ledger that already holds an order: every unit
\* would be submitted
C3_Witness ==
    /\ batch.pc = "done"
    /\ batch.dry_run
    /\ Len(batch.units) >= 2
    /\ Len(batch.submitted) = Len(batch.units)
    /\ Len(ledger.orders) >= 1

(***************************************************************************)
(* Properties of a failed search                                            *)
(***************************************************************************)

\* the responses of the search endpoint during the last call
SearchRefused == \E i \in 1..Len(last.search_resps) : last.search_resps[i].status # 200

\* C11: when a page request of the search, the first or a later one, is
\* refused, the search ends there with an error carrying the status and body
\* of that response; submit_single_order returns one failure made of that
\* error alone (no scene count, no selection), sends no order request and
\* leaves the ledger as it was.
C11_RefusedPageFailsTheUnit ==
    /\ []( (last.cmd = "submit_single_order" /\ SearchRefused) =>
               LET n == Len(last.search_resps)
               IN  /\ \A i \in 1..(n - 1) : last.search_resps[i].status = 200
                   /\ last.result =
                          [success |-> FALSE,
                           error |-> ErrorText("Search failed",
                                               last.search_resps[n].status,
                                               last.search_resps[n].text)]
                   /\ ~last.posted
                   /\ ~last.raised )
    /\ [][ (last'.cmd = "submit_single_order" /\ SearchRefused') =>
               /\ ledger' = ledger
               /\ accepted' = accepted
               /\ batch'.submitted = batch.submitted ]_vars

\* the second page is refused after a first page that held a scene
C11_Witness ==
    /\ last.cmd = "submit_single_order"
    /\ ~last.dry_run
    /\ Len(last.search_resps) = 2
    /\ last.search_resps[1].features # <<>>
    /\ last.search_resps[2].status # 200

(***************************************************************************)
(* Properties of the bundle resolution                                      *)
(***************************************************************************)

\* the orders of a command that resolved its bundle
BundleResolved == bCmd \in {"submit", "search_scenes", "batch_submit"}

\* C12: the search-time bundle of every order (of submit, of search_scenes,
\* of each unit of batch_submit) is the override when one is given; else the
\* 4-band bundle for four_bands; else the 8-band bundle when the order's own
\* start year is 2021 or later and the 4-band bundle when it is earlier.
C12_BundleByOwnStartYear ==
    BundleResolved =>
        \A i \in 1..Len(bOut) :
            bOut[i].search_bundle =
                IF bIn.bundle # "" THEN bIn.bundle
                ELSE IF bIn.num_bands = "four_bands" THEN "ortho_analytic_4b_sr"
                ELSE IF bIn.starts[i][2] >= 2021 THEN "ortho_analytic_8b_sr"
                ELSE "ortho_analytic_4b_sr"

\* the crosswalk table: search-time identifier, order-time identifier
CrosswalkTable ==
    { <<"ortho_analytic_4b_sr", "analytic_sr_udm2">>,
      <<"ortho_analytic_8b_sr", "analytic_8b_sr_udm2">> }

\* C13: without an override, the asset filter of every search is a search-time
\* identifier of the crosswalk, never an order-time identifier, and the order
\* request carries the order-time identifier the crosswalk assigns to it,
\* which differs from the search-time one.
C13_CrosswalkIdentifiers ==
    (BundleResolved /\ bIn.bundle = "") =>
        \A i \in 1..Len(bOut) :
            /\ bOut[i].search_bundle \in { p[1] : p \in CrosswalkTable }
            /\ bOut[i].search_bundle \notin { p[2] : p \in CrosswalkTable }
            /\ bCmd # "search_scenes" =>
                   /\ <<bOut[i].search_bundle, bOut[i].order_bundle>> \in CrosswalkTable
                   /\ bOut[i].order_bundle # bOut[i].search_bundle

(***************************************************************************)
(* Properties of batch_submit                                               *)
(***************************************************************************)

\* the rows of the running batch whose two dates parse
GoodRows ==
    { k \in 1..Len(batch.rows) :
          IsDashDate(batch.rows[k].start_date) /\ IsDashDate(batch.rows[k].end_date) }

\* the units that row k contributed, in their order
UnitsOfRow(k) ==
    LET FromRow(u) == u.row_idx = k
    IN  SelectSeq(batch.units, FromRow)

EntriesOfRun ==
    IF batch.dry_run THEN <<>>
    ELSE SubSeq(ledger.orders, Len(ledger.orders) - Len(batch.submitted) + 1,
                Len(ledger.orders))

\* C15: every ledger entry appended during one batch_submit run carries a
\* batch_id, the same for all entries of the run: the id the run generated
\* before its first unit and kept until its end.
C15_OneBatchIdPerRun ==
    /\ []( (batch.pc # "idle" /\ "units" \in DOMAIN batch) =>
               /\ Len(EntriesOfRun) = (IF batch.dry_run THEN 0 ELSE Len(batch.submitted))
               /\ \A i \in 1..Len(EntriesOfRun) :
                      /\ "batch_id" \in DOMAIN EntriesOfRun[i]
                      /\ EntriesOfRun[i].batch_id = batch.batch_id )
    /\ [][ /\ batch.pc = "run" => batch'.batch_id = batch.batch_id
           /\ (batch.pc = "idle" /\ batch'.pc # "idle") =>
                  /\ ledger' = ledger
                  /\ "units" \in DOMAIN batch' =>
                         batch'.i = 1 /\ batch'.submitted = <<>>
           /\ (batch.pc = "run" /\ ledger' # ledger) =>
                  /\ "batch_id" \in DOMAIN ledger'.orders[Len(ledger'.orders)]
                  /\ ledger'.orders[Len(ledger'.orders)].batch_id = batch.batch_id ]_vars

\* a run that placed two orders: both entries carry its batch id
C15_Witness ==
    /\ batch.pc = "done"
    /\ ~batch.dry_run
    /\ Len(batch.submitted) = 2
    /\ Len(ledger.orders) = 2
    /\ ledger.orders[1].order_id # ledger.orders[2].order_id

\* C16: a unit joins the list of units without eligible scenes only if its
\* search succeeded and no scene was selected; a unit whose search was
\* refused, or whose order request was rejected, joins the failed list,
\* whatever the status and the body of the refusing response.
C16_NoScenesOnlyAfterGoodSearch ==
    [][ (batch.pc = "run" /\ batch'.pc = "run" /\ batch'.i = batch.i + 1) =>
            /\ Len(batch'.no_scenes) > Len(batch.no_scenes) =>
                   /\ ~SearchRefused'
                   /\ ~last'.posted
                   /\ ~last'.result.success
            /\ (SearchRefused' \/ (last'.posted /\ last'.status # 202)) =>
                   /\ Len(batch'.failed) = Len(batch.failed) + 1
                   /\ batch'.no_scenes = batch.no_scenes
                   /\ batch'.submitted = batch.submitted ]_vars

\* what identifies a unit in the lists of results
UnitKey(x) == <<x.gage_id, x.start_date, x.end_date>>
InResults(list, unit) == \E j \in 1..Len(list) : UnitKey(list[j]) = UnitKey(unit)

\* the lists among submitted, no_scenes and failed that hold the unit
ListsHolding(unit) ==
    { name \in {"submitted", "no_scenes", "failed"} : InResults(batch[name], unit) }

\* every unit before batch.i is in exactly one list, no later unit is in any,
\* and the three counts sum to the number of units processed
UnitsPlacedOnce ==
    ("units" \in DOMAIN batch) =>
        /\ \A k \in 1..Len(batch.units) :
               Cardinality(ListsHolding(batch.units[k])) = (IF k < batch.i THEN 1 ELSE 0)
        /\ Len(batch.submitted) + Len(batch.no_scenes) + Len(batch.failed) = batch.i - 1
        /\ batch.pc = "done" => batch.i - 1 = Len(batch.units)

\* C17: batch_submit processes every prepared unit once, in list order, and
\* places it in exactly one of submitted, no_scenes and failed; a unit that
\* fails (its search is refused, its order is rejected, or a remote call
\* raises while it is processed) never ends the run before the later units,
\* and at the summary the three counts sum to the number of prepared units.
C17_EveryUnitProcessedOnce ==
    /\ UnitsPlacedOnce
    /\ (last.cmd = "submit_single_order" /\ last.status # 202) => batch.pc \in {"run", "done"}

\* C18: when the API key is missing or a required column is missing,
\* batch_submit sends no request to the network and the process ends with a
\* nonzero exit code.
C18_ConfigErrorExitsNonzero ==
    (batch.pc # "idle" /\ batch.config # "ok") =>
        /\ batch.posts = 0
        /\ batch.searches = 0
        /\ batch.pc \in {"returned", "exit"}
        /\ batch.exit_code # 0

\* C19: a failure of a single unit inside batch_submit (search error, order
\* rejection, or an exception raised by a remote call of that unit) does not
\* change the exit code of the process: the run reaches its summary and ends
\* with exit code 0, as a run without failures does.
C19_UnitFailureKeepsExitCode ==
    ("units" \in DOMAIN batch /\ batch.pc \in {"done", "exit"}) =>
        /\ batch.pc = "done"
        /\ batch.exit_code = 0

(***************************************************************************)
(* Properties of the status commands                                        *)
(***************************************************************************)

\* the poll of the order that returned success, before event k of the run
SuccessPollBefore(k) ==
    \E j \in 1..(k - 1) :
        /\ events[j].op = "poll"
        /\ events[j].order_id = events[k].order_id
        /\ events[j].status = 200
        /\ events[j].state = "success"

TransferOps == {"download", "write", "metadata"}

\* within a run: a transfer follows a successful poll of its order, an order
\* is polled once, and an order polled in another state has no transfer
PollsGateTransfers ==
    /\ \A k \in 1..Len(events) :
           events[k].op \in TransferOps => SuccessPollBefore(k)
    /\ \A j, k \in 1..Len(events) :
           (events[j].op = "poll" /\ events[k].op = "poll"
                /\ events[j].order_id = events[k].order_id) => j = k
    /\ \A j, k \in 1..Len(events) :
           (events[j].op = "poll" /\ events[j].state # "success")
               => ~(events[k].op \in TransferOps \cup {"exists"}
                       /\ events[k].order_id = events[j].order_id)

\* every object that a step puts into the destination is the write of an
\* event of the run that follows a successful poll of its order
StoreChangesAfterSuccess ==
    \A o \in store' \ store :
        \E k \in 1..Len(events') :
            /\ events'[k].op \in {"write", "metadata"}
            /\ events'[k].done
            /\ events'[k].where = o.where /\ events'[k].key = o.key
            /\ \E j \in 1..(k - 1) :
                   /\ events'[j].op = "poll"
                   /\ events'[j].order_id = events'[k].order_id
                   /\ events'[j].state = "success"

\* C20: when a poll returns a state other than success, check_order_status
\* and batch_check_status transfer no artifact and write no metadata file for
\* that order and return or move on without polling it again; artifacts are
\* transferred only after a poll of that order that returned success.
C20_NoTransferUnlessSuccess ==
    []PollsGateTransfers /\ [][StoreChangesAfterSuccess]_vars

\* batch_check_status met an order that is not ready, whose document lists
\* files, moved on and fetched a file of the next order
C20_Witness ==
    /\ check.pc # "idle"
    /\ check.cmd = "batch_check_status"
    /\ \E j, k \in 1..Len(events) :
           /\ j < k
           /\ events[j].op = "poll"
           /\ events[j].state \in {"running", "failed"}
           /\ events[k].op = "write"
           /\ events[k].done
           /\ events[k].order_id # events[j].order_id

\* the order ids polled by the run, in the order of the polls
PolledSeq ==
    LET polls == SelectSeq(events, LAMBDA ev : ev.op = "poll")
    IN  [k \in 1..Len(polls) |-> polls[k].order_id]

\* the order ids of the ledger records of the batch, in ledger order
MemberIds(batch_id) ==
    LET members == SelectSeq(ledger.orders,
                             LAMBDA o : "batch_id" \in DOMAIN o /\ o.batch_id = batch_id)
    IN  [k \in 1..Len(members) |-> members[k].order_id]

\* a batch_check_status that entered its loop has ended
BatchCheckEnded ==
    /\ check.pc \in {"done", "exit"}
    /\ "orders" \in DOMAIN check

\* the part of C21 that holds: a run that reaches its summary has polled
\* exactly the members, once each, in ledger order
SummaryAfterAllPolls ==
    (BatchCheckEnded /\ check.pc = "done") => PolledSeq = MemberIds(check.batch_id)

\* C21: batch_check_status polls exactly the ledger records whose batch_id
\* equals the given one, each once and in ledger order, and an error while
\* polling or fetching one order (an exception raised by the poll included)
\* never prevents the remaining members from being polled.
C21_EveryMemberPolled ==
    BatchCheckEnded => PolledSeq = MemberIds(check.batch_id)

\* the polled state of the order in this run, "none" when no poll of it
\* returned a document
PolledState(order_id) ==
    IF \E k \in 1..Len(events) : events[k].op = "poll" /\ events[k].order_id = order_id
    THEN events[CHOOSE k \in 1..Len(events) :
                    events[k].op = "poll" /\ events[k].order_id = order_id].state
    ELSE "none"

IdsOf(list) == [k \in 1..Len(list) |-> list[k].order_id]

\* the number of result lists that hold the order
OutcomesOf(order_id) ==
    Cardinality({ k \in 1..Len(check.success) : check.success[k].order_id = order_id })
    + Cardinality({ k \in 1..Len(check.pending) : check.pending[k].order_id = order_id })
    + Cardinality({ k \in 1..Len(check.failed) : check.failed[k].order_id = order_id })

\* the part of C22 that holds: one outcome per member, the counts sum to the
\* number of members, and success only after a poll that returned success
OneOutcomePerMember ==
    (BatchCheckEnded /\ check.pc = "done") =>
        /\ \A k \in 1..Len(check.orders) : OutcomesOf(check.orders[k].order_id) = 1
        /\ Len(check.success) + Len(check.pending) + Len(check.failed)
               = Len(check.orders)
        /\ \A k \in 1..Len(check.success) :
               PolledState(check.success[k].order_id) = "success"

\* C22: batch_check_status gives each member exactly one outcome: pending if
\* and only if the polled state is queued or running; failed if the polled
\* state is failed or the poll or the fetch met an error; success only if the
\* polled state is success; the three counts sum to the number of members.
C22_OutcomeByPolledState ==
    (BatchCheckEnded /\ check.pc = "done") =>
        /\ \A k \in 1..Len(check.orders) : OutcomesOf(check.orders[k].order_id) = 1
        /\ Len(check.success) + Len(check.pending) + Len(check.failed)
               = Len(check.orders)
        /\ \A k \in 1..Len(check.orders) :
               (check.orders[k].order_id \in { check.pending[j].order_id :
                                                  j \in 1..Len(check.pending) })
                   <=> PolledState(check.orders[k].order_id) \in {"queued", "running"}
        /\ \A k \in 1..Len(check.orders) :
               PolledState(check.orders[k].order_id) \in {"failed", "none"}
                   => check.orders[k].order_id \in { check.failed[j].order_id :
                                                        j \in 1..Len(check.failed) }
        /\ \A k \in 1..Len(check.success) :
               PolledState(check.success[k].order_id) = "success"

\* the events that a step adds to the run
NewEvents == (IF Len(events') >= Len(events) THEN Len(events) + 1 ELSE 1)..Len(events')

\* the overwrite flag of the command that took the step; check_order_status
\* has none
OverwriteSet == "overwrite" \in DOMAIN check' /\ check'.overwrite

\* a step writes no artifact under a key that the destination held before it
NoWriteOverExisting ==
    \A k \in NewEvents :
        (events'[k].op = "write" /\ events'[k].done)
            => ~KeyExists(store, events'[k].where, events'[k].key)

\* the part of C23 that holds: batch_check_status without overwrite
BatchKeepsExisting ==
    [][("overwrite" \in DOMAIN check' /\ ~check'.overwrite) => NoWriteOverExisting]_vars

\* C23: with the overwrite flag unset, no fetch operation (check_order_status
\* or batch_check_status, object store or local directory, scene flow or
\* mosaic flow) writes an artifact to a destination key that already exists;
\* with overwrite set no artifact is skipped for existing.
C23_ExistingKeysNotOverwritten ==
    [][/\ ~OverwriteSet => NoWriteOverExisting
       /\ OverwriteSet => \A k \in NewEvents : events'[k].op # "exists"]_vars

\* the keys under which the destination holds an artifact
ArtifactKeys(objects) ==
    { <<o.where, o.key>> : o \in { x \in objects : x.body[1] = "content" } }

\* a step of batch_check_status with overwrite disabled
StepWithoutOverwrite == "overwrite" \in DOMAIN check' /\ ~check'.overwrite

LinkAt(url) ==
    LET all == SceneLinks \o MosaicLinks
    IN  all[CHOOSE i \in 1..Len(all) : all[i].location = url]

\* the ledger record of the order, << >> when the ledger holds none
RecordOf(order_id) ==
    IF ledger.state = "list"
          /\ \E i \in 1..Len(ledger.orders) : ledger.orders[i].order_id = order_id
    THEN ledger.orders[CHOOSE i \in 1..Len(ledger.orders) :
                           ledger.orders[i].order_id = order_id]
    ELSE << >>

\* the AOI name of the keys of the order: the normalized name of its record
AoiOf(order_id) ==
    IF ledger.state # "list" THEN "UnknownAOI"
    ELSE IF "aoi_name" \in DOMAIN RecordOf(order_id)
    THEN normalize_aoi_name(RecordOf(order_id).aoi_name)
    ELSE "UnknownAOI"

\* the mosaic period of the order: year and month of the name of its mosaic
PeriodOf(order_id) ==
    IF "mosaic_name" \in DOMAIN RecordOf(order_id)
          /\ RecordOf(order_id).mosaic_name = "global_monthly_2024_03_mosaic"
    THEN <<"2024", "03">>
    ELSE <<"unknown_date">>

\* the key of the claim for the file of a link, by flow
ClaimedSceneKey(order_id, file) ==
    <<"planetscope analytic", "four_bands", AoiOf(order_id),
      <<"_", file.date[1], file.date[2], file.date[3]>>,
      SubSeq(file.words, 1, Len(file.words) - 1), ".tiff">>

ClaimedMosaicKey(order_id, file) ==
    <<"basemaps", AoiOf(order_id), PeriodOf(order_id), file>>

\* C25: the destination key of a transferred artifact depends only on the
\* normalized AOI name, the acquisition date and the scene id in the scene
\* flow ('{date}_{sceneid}' plus a fixed extension under the AOI path) and
\* only on the normalized AOI name, the mosaic period and the file name in the
\* mosaic flow; the same document and ledger record give the same keys in
\* every run, whatever the destination holds and whatever else the run did.
C25_KeysArePureFunctions ==
    /\ \A k \in 1..Len(events) :
           events[k].op = "write" =>
               /\ k > 1
               /\ events[k - 1].op = "download"
               /\ events[k - 1].order_id = events[k].order_id
               /\ events[k].key =
                      IF Get(RecordOf(events[k].order_id), "order_type", "Unknown")
                             = "PSScope"
                         /\ Get(RecordOf(events[k].order_id), "num_bands", "four_bands")
                                = "four_bands"
                      THEN ClaimedSceneKey(events[k].order_id,
                                           LinkAt(events[k - 1].url).name[2])
                      ELSE ClaimedMosaicKey(events[k].order_id,
                                            LinkAt(events[k - 1].url).name[2])
    /\ \A o1, o2 \in store :
           (o1.body = o2.body /\ o1.body[1] = "content"
                /\ o1.where = o2.where /\ o1.key[1] = o2.key[1]
                /\ (o1.key[1] = "basemaps" => o1.key[2] = o2.key[2])
                /\ (o1.key[1] # "basemaps" => o1.key[3] = o2.key[3]))
               => o1.key = o2.key

\* two members of one AOI were fetched in one run from documents that list
\* the same files: the second found the keys of the first
C25_Witness ==
    /\ check.pc = "done"
    /\ check.cmd = "batch_check_status"
    /\ \E j, k \in 1..Len(events) :
           /\ j < k
           /\ events[j].op = "write" /\ events[j].done
           /\ events[k].op = "exists" /\ events[k].found
           /\ events[j].order_id # events[k].order_id
           /\ events[j].key = events[k].key
           /\ events[j].key[1] = "planetscope analytic"

\* the events of the run that attempt an artifact of the order
AttemptsOf(order_id) ==
    { k \in 1..Len(events) :
          events[k].op \in {"exists", "download", "write"}
              /\ events[k].order_id = order_id }

MetadataOf(order_id) ==
    { k \in 1..Len(events) :
          events[k].op = "metadata" /\ events[k].order_id = order_id }

\* the orders that the run has finished with: all polled ones once the
\* command has ended, the earlier members while the loop runs
FinishedIds ==
    IF check.pc \in {"returned", "done", "exit"}
    THEN { events[k].order_id : k \in 1..Len(events) }
    ELSE IF check.pc = "run"
    THEN { check.orders[k].order_id : k \in 1..(check.i - 1) }
    ELSE {}

\* the part of C26 that holds: the metadata file is never written before or
\* between the transfer attempts of its order, and at most once
MetadataNeverBeforeTransfers ==
    \A m \in 1..Len(events) :
        events[m].op = "metadata" =>
            /\ \A k \in AttemptsOf(events[m].order_id) : k < m
            /\ MetadataOf(events[m].order_id) = {m}

\* C26: for every order whose polled state is success and that has artifacts,
\* the order-status document is written as a metadata file after all the
\* transfer attempts of that order (skipped and failed ones included), never
\* before or between them, in check_order_status and batch_check_status.
C26_MetadataAfterAllTransfers ==
    /\ MetadataNeverBeforeTransfers
    /\ \A id \in FinishedIds :
           AttemptsOf(id) # {} => MetadataOf(id) # {}

\* the download of the first artifact of an order that has a sibling after it
FirstDownloads ==
    { k \in 1..Len(events) :
          events[k].op = "download" /\ events[k].url \in {"url-1", "url-5"}
              /\ events[k].order_id \in FinishedIds }

\* a later attempt (existence check or download) of a sibling of the artifact
SiblingAttemptedAfter(k) ==
    \E j \in (k + 1)..Len(events) :
        /\ events[j].order_id = events[k].order_id
        /\ events[j].op \in {"exists", "download"}

\* the part of C27 that holds: after a download that was answered (with 200
\* or not) and after a failed write the siblings are attempted, and no
\* transfer failure ends the run of a batch
AnsweredFailuresIsolated ==
    /\ \A k \in FirstDownloads : events[k].status # 0 => SiblingAttemptedAfter(k)
    /\ (BatchCheckEnded
            /\ \A k \in 1..Len(events) : ~(events[k].op = "poll" /\ events[k].status = 0))
           => (check.pc = "done" /\ PolledSeq = MemberIds(check.batch_id))

\* C27: a failed download or a failed destination write of one artifact is
\* isolated to that artifact: the remaining artifacts of the order are still
\* attempted and the remaining orders of the batch are still polled, for a
\* non-success download response, an exception raised by the download and an
\* exception raised by the store write.
C27_TransferFailureIsolated ==
    /\ \A k \in FirstDownloads : SiblingAttemptedAfter(k)
    /\ (BatchCheckEnded
            /\ \A k \in 1..Len(events) : ~(events[k].op = "poll" /\ events[k].status = 0))
           => (check.pc = "done" /\ PolledSeq = MemberIds(check.batch_id))

(***************************************************************************)
(* Properties of a ledger file that holds no list of orders                 *)
(***************************************************************************)

\* a step in which the order endpoint accepted an order, so that log_order
\* is called
OrderLogged == last'.posted /\ last'.status = 202

\* log_order went through and the ledger holds exactly the new entry
LoggedAsFirstEntry ==
    /\ ~last'.raised
    /\ ledger'.state = "list"
    /\ Len(ledger'.orders) = 1
    /\ ledger'.orders[1].order_id = nextId

\* the part of C28 that holds for log_order: a ledger file that is no JSON
NotJsonLedgerNotFatal ==
    [][(ledger.state = "malformed" /\ OrderLogged) => LoggedAsFirstEntry]_vars

\* the part of C28 that holds for the status commands: with a ledger file
\* that is no JSON they end by an exception only when a remote call raised
StatusSurvivesNotJson ==
    (ledger.state = "malformed" /\ check.pc = "exit")
        => \E k \in 1..Len(events) : events[k].status = 0

\* C28: when the existing ledger content is malformed, no ledger operation
\* is fatal: log_order treats the ledger as empty and completes normally,
\* and the resulting ledger holds exactly the new entry.
C28_MalformedLedgerNotFatal ==
    [][(ledger.state \in {"malformed", "object"} /\ OrderLogged)
           => LoggedAsFirstEntry]_vars

(***************************************************************************)
(* Termination of subdivide_date_range                                      *)
(***************************************************************************)

\* the chunks that end on the overall end date
EndChunks == { i \in 1..Len(cChunks) : cChunks[i][2] = cEnd }

\* C29: for start <= end and positive max_months, subdivide_date_range
\* terminates, and it stops exactly when a chunk ending on the overall end
\* date has been emitted: that chunk is the last one, the loop condition
\* fails right after it, and the function does not return before it.
C29_StopsAtEndChunk ==
    /\ <>(cPc = "done")
    /\ [](ChunkPre =>
             /\ EndChunks \subseteq {Len(cChunks)}
             /\ EndChunks # {} => ~DateLE(cCur, StrptimeDash(cEnd))
             /\ cPc = "done" => EndChunks = {Len(cChunks)})

\* a range of several chunks was returned
C29_Witness ==
    /\ cPc = "done"
    /\ Len(cChunks) >= 2
    /\ cMonths = 1
    /\ EndChunks = {Len(cChunks)}

(***************************************************************************)
(* The coverage threshold of the selection step                            *)
(***************************************************************************)

\* the interval keys that have a winner
WinnerKeys == { SceneKey(w) : w \in SelectedScenes }

\* no scene under the threshold is selected, and the coverage reported with
\* a selected scene is its own
WinnersReachThreshold ==
    \A i \in 1..Len(sOut.selected) :
        /\ sOut.selected[i][1] \in SeqRange(sFeatures)
        /\ sOut.selected[i][1].cov >= MIN_COV_PCT
        /\ sOut.selected[i][2] = sOut.selected[i][1].cov

\* a scene exactly at the threshold is a candidate of its bucket: the
\* bucket has a winner, and the scene is the winner unless another scene of
\* the bucket covers more or was acquired no later
ThresholdSceneKept ==
    \A f \in SeqRange(sFeatures) :
        f.cov = MIN_COV_PCT =>
            /\ sOut.kind = "selected"
            /\ SceneKey(f) \in WinnerKeys
            /\ \/ f \in SelectedScenes
               \/ \E g \in SelectedScenes :
                      /\ g # f
                      /\ SceneKey(g) = SceneKey(f)
                      /\ \/ g.cov > f.cov
                         \/ ~DateLT(StrptimeDash(AcquiredDate(f)),
                                    StrptimeDash(AcquiredDate(g)))

\* C30: every scene that a command selects for its order request, dry-run
\* report or search report covers at least MIN_COV_PCT of the AOI: a scene
\* strictly below the threshold is never a bucket winner, and a scene
\* exactly at the threshold is kept as a candidate of its bucket.
C30_SelectedReachThreshold ==
    sCmd # "none" =>
        /\ sOut.kind = "selected" => WinnersReachThreshold
        /\ ThresholdSceneKept

\* a scene at the threshold won a bucket that also held a scene under it
C30_Witness ==
    /\ sCmd # "none"
    /\ sOut.kind = "selected"
    /\ \E w \in SelectedScenes :
           /\ w.cov = MIN_COV_PCT
           /\ \E f \in SeqRange(sFeatures) :
                  f.cov < MIN_COV_PCT /\ SceneKey(f) = SceneKey(w)

(***************************************************************************)
(* The delay between the page requests                                      *)
(***************************************************************************)

\* the response that the step received
LastResponse == fResps'[Len(fResps')]

\* one iteration: a request is sent when every earlier request was followed
\* by one delay, and the delay is taken after the response, exactly when the
\* response names a next page
DelayAfterPageWithNext ==
    (fetch.pc = "loop" /\ fetch' # fetch) =>
        /\ Len(fetch'.reqs) = Len(fetch.reqs) + 1
        /\ Len(fResps') = Len(fetch'.reqs)
        /\ fetch.sleeps = Len(fetch.reqs)
        /\ IF LastResponse.status = 200 /\ LastResponse.next # "none"
           THEN fetch'.sleeps = fetch.sleeps + 1 /\ fetch'.pc = "loop"
           ELSE fetch'.sleeps = fetch.sleeps /\ fetch'.pc \in {"returned", "raised"}

\* after the loop there is one delay less than requests
NoDelayAfterLastPage ==
    fetch.pc \in {"returned", "raised"} => fetch.sleeps = Len(fetch.reqs) - 1

\* C31: every page request after the first is preceded by exactly one delay,
\* taken after the previous response was received, and no delay follows the
\* last page.
C31_OneDelayBetweenPages ==
    /\ []NoDelayAfterLastPage
    /\ [][DelayAfterPageWithNext]_vars

\* a search of three pages that slept twice
C31_Witness ==
    /\ fetch.pc = "returned"
    /\ Len(fetch.reqs) = MaxPages
    /\ fetch.sleeps = MaxPages - 1

(***************************************************************************)
(* The fields of a scene-order ledger entry                                 *)
(***************************************************************************)

SceneEntryFields ==
    {"order_id", "aoi_name", "order_type", "start_date", "end_date", "num_bands",
     "product_bundle", "product_bundle_order", "aoi_area_sqkm", "timestamp"}

SceneEntries ==
    { ledger.orders[i] : i \in { k \in 1..Len(ledger.orders) :
                                     ledger.orders[k].order_type = "PSScope" } }

\* the part of C32 that holds: the entries of submit_single_order
BatchEntriesComplete ==
    \A e \in SceneEntries :
        "batch_order" \in DOMAIN e => SceneEntryFields \subseteq DOMAIN e

\* C32: every scene-order ledger entry, written by submit or by
\* submit_single_order, holds the search-time and the order-time bundle name
\* as two fields, with order_id, AOI name, order type, date range, band
\* count, area and timestamp.
C32_SceneEntryHasBothBundles ==
    \A e \in SceneEntries : SceneEntryFields \subseteq DOMAIN e

(***************************************************************************)
(* The weekly choice of the scene flow                                      *)
(***************************************************************************)

\* the order goes through the scene flow: its record says PSScope, four bands
InSceneFlow(order_id) ==
    /\ Get(RecordOf(order_id), "order_type", "Unknown") = "PSScope"
    /\ Get(RecordOf(order_id), "num_bands", "four_bands") = "four_bands"

\* an image: a .tif that is no quality mask and whose name has a date
IsImageFile(file) ==
    /\ file.ext = ".tif"
    /\ \A i \in 1..Len(file.words) : file.words[i] # "udm2"
    /\ file.date # <<>>

SceneCandidates ==
    { SceneLinks[i].name[2] : i \in { k \in 1..Len(SceneLinks) :
                                          IsImageFile(SceneLinks[k].name[2]) } }

\* the Sunday on or before the date of the file
WeekOf(file) == get_week_start_date(<<"_", file.date[1], file.date[2], file.date[3]>>)

CandidateWeeks == { WeekOf(f) : f \in SceneCandidates }

\* the candidate of the week that was acquired first
FirstOfWeek(w) ==
    CHOOSE f \in SceneCandidates :
        /\ WeekOf(f) = w
        /\ \A g \in SceneCandidates : WeekOf(g) = w => ~DateLT(g.date, f.date)

\* the destination keys that the run tried for the order
KeysTried(order_id) ==
    { IF events[k].op = "download"
      THEN ClaimedSceneKey(order_id, LinkAt(events[k].url).name[2])
      ELSE events[k].key : k \in AttemptsOf(order_id) }

\* C33: in the scene flow one artifact is kept per week, the first by
\* (week start, acquisition date) among the artifacts that are not skipped:
\* every download is of the first candidate of its week, and an order whose
\* transfers ran to their end tried exactly the keys of the first candidates,
\* one for each week.
C33_OneArtifactPerWeek ==
    /\ \A k \in 1..Len(events) :
           (events[k].op = "download" /\ InSceneFlow(events[k].order_id)) =>
               /\ LinkAt(events[k].url).name[2] \in SceneCandidates
               /\ LinkAt(events[k].url).name[2]
                      = FirstOfWeek(WeekOf(LinkAt(events[k].url).name[2]))
    /\ \A m \in 1..Len(events) :
           (events[m].op = "metadata" /\ InSceneFlow(events[m].order_id)
                /\ AttemptsOf(events[m].order_id) # {}) =>
               KeysTried(events[m].order_id)
                   = { ClaimedSceneKey(events[m].order_id, FirstOfWeek(w)) :
                           w \in CandidateWeeks }

\* an order of the scene flow whose two weeks were both written
C33_Witness ==
    \E m \in 1..Len(events) :
        /\ events[m].op = "metadata"
        /\ InSceneFlow(events[m].order_id)
        /\ Cardinality({ k \in AttemptsOf(events[m].order_id) :
                             events[k].op = "write" /\ events[k].done }) = 2

\* C34: in the scene flow no quality mask and no metadata-only artifact
\* (udm raster, .xml or .json sidecar) is downloaded, written or kept for a
\* week: what is tried and what the destination holds under the scene path
\* is an image whose file name yields an acquisition date.
C34_OnlyDatedImagesTransferred ==
    /\ \A k \in 1..Len(events) :
           (events[k].op \in {"exists", "download", "write"}
                /\ InSceneFlow(events[k].order_id)) =>
               IF events[k].op = "download"
               THEN IsImageFile(LinkAt(events[k].url).name[2])
               ELSE \E f \in SceneCandidates :
                        events[k].key = ClaimedSceneKey(events[k].order_id, f)
    /\ \A o \in store :
           (o.key[1] = "planetscope analytic" /\ o.body[1] = "content") =>
               IsImageFile(LinkAt(o.body[2]).name[2])

\* the image of a week was written although its mask was listed before it
C34_Witness ==
    \E k \in 1..Len(events) :
        /\ events[k].op = "write" /\ events[k].done
        /\ InSceneFlow(events[k].order_id)
        /\ events[k - 1].url = "url-1"
        /\ \E o \in store : o.key = events[k].key /\ o.body = <<"content", "url-1">>

(***************************************************************************)
(* Two writers of the ledger, and an interrupted writer                     *)
(***************************************************************************)

LoggedIds == { logFile.orders[i].order_id : i \in 1..Len(logFile.orders) }

BothWritersDone == \A p \in Writers : writers # <<>> /\ writers[p].pc = "done"

\* the part of C35 that holds: two calls of which one read the file after
\* the other had finished leave both entries
OneAfterTheOtherKeepsBoth ==
    (BothWritersDone /\ \E p \in Writers : writers[p].seen # {}) =>
        /\ logFile.state = "list"
        /\ Writers \subseteq LoggedIds

\* C35: for every interleaving of two log_order calls of two processes on
\* one ledger, the final ledger holds both new entries and all the earlier
\* entries.
C35_NoLostLedgerUpdate ==
    [][(BothWritersDone' /\ ~BothWritersDone) =>
           /\ logFile'.state = "list"
           /\ \A p \in Writers :
                  \E i \in 1..Len(logFile'.orders) : logFile'.orders[i].order_id = p
           /\ (\E p \in Writers : EarlierEntry \in SeqRange(writers[p].orders))
                  => EarlierEntry \in SeqRange(logFile'.orders)]_vars

\* the complete list that the file holds, none when it holds no JSON list
CompleteList(f) == IF f.state = "list" THEN f.orders ELSE <<>>

\* C36: at every point of log_order, an interruption between the opening of
\* the file for writing and the end of the dump included, the ledger file
\* holds the complete old list or the complete new list: a step leaves the
\* file as it is or puts the old list with one new entry in its place.
C36_LedgerNeverPartial ==
    [][\/ logFile' = logFile
       \/ /\ logFile'.state = "list"
          /\ \E p \in Writers :
                 logFile'.orders
                     = Append(CompleteList(logFile),
                              [LogEntry(p) EXCEPT !.timestamp = "now"])]_vars

(***************************************************************************)
(* The metadata documents of the orders of one run                          *)
(***************************************************************************)

\* the destination holds the order-status document of the order under the
\* key of the metadata event
DocumentKept(m) ==
    \E o \in store :
        /\ o.where = events[m].where
        /\ o.key = events[m].key
        /\ o.body[1] = "json"
        /\ o.body[2].id = events[m].order_id

\* the part of C37 that holds: the document of the order that was saved
\* last under a key is kept
LastDocumentKept ==
    \A m \in 1..Len(events) :
        (events[m].op = "metadata" /\ events[m].done
             /\ \A n \in (m + 1)..Len(events) :
                    ~(events[n].op = "metadata" /\ events[n].done
                          /\ events[n].where = events[m].where
                          /\ events[n].key = events[m].key)) => DocumentKept(m)

\* C37: every order that a run fetched has its own metadata document in
\* the destination: the order-status document saved for an order is there
\* after the run has processed further orders, not replaced by the document
\* of another order.
C37_MetadataDocumentPerOrder ==
    \A m \in 1..Len(events) :
        (events[m].op = "metadata" /\ events[m].done) => DocumentKept(m)

(***************************************************************************)
(* What a success of batch_check_status stands for                          *)
(***************************************************************************)

\* the pass of the loop put its order on the success list
ReportedSuccess ==
    /\ check.pc = "run" /\ check'.pc = "run"
    /\ Len(check'.success) = Len(check.success) + 1

\* the document of that order: the one that the pass just saved
SavedDocument ==
    (CHOOSE o \in store' :
         /\ o.where = events'[Len(events')].where
         /\ o.key = events'[Len(events')].key).body[2]

\* the images among the links, and the first of each week among them
ImagesOf(links) ==
    { links[k].name[2] : k \in { j \in 1..Len(links) : IsImageFile(links[j].name[2]) } }

WeeklyFirstOf(links) ==
    { f \in ImagesOf(links) :
          \A g \in ImagesOf(links) : WeekOf(g) = WeekOf(f) => ~DateLT(g.date, f.date) }

\* the destination keys that the artifacts of the order are due at
KeysDue(order, doc) ==
    IF doc.source_type = "basemaps"
          \/ Get(order, "order_type", "Unknown") = "Basemap (Composite)"
    THEN { ClaimedMosaicKey(order.order_id, doc.results[k].name[2]) :
               k \in 1..Len(doc.results) }
    ELSE { ClaimedSceneKey(order.order_id, f) : f \in WeeklyFirstOf(doc.results) }

AllKeysPresent ==
    \A key \in KeysDue(check.orders[check.i], SavedDocument) :
        KeyExists(store', events'[Len(events')].where, key)

\* a download that was not answered 200 or a write that raised, in the pass
TransferFailed ==
    \E k \in (Len(events) + 1)..Len(events') :
        \/ events'[k].op = "download" /\ events'[k].status # 200
        \/ events'[k].op = "write" /\ ~events'[k].done

\* the part of C38 that holds: a success without a failed transfer
SuccessWithoutFailureHasAll ==
    [][(ReportedSuccess /\ ~TransferFailed) => AllKeysPresent]_vars

\* C38: whenever batch_check_status reports an order as success, every
\* artifact of the order that is no mask, no metadata file and no weekly
\* duplicate is at its destination key after the pass, written by it or there
\* before.
C38_SuccessMeansArtifactsPresent ==
    [][ReportedSuccess => AllKeysPresent]_vars

(***************************************************************************)
(* Sibling artifacts of one order and their destination keys                *)
(***************************************************************************)

\* event k of the run meets a key that an earlier write of the same order,
\* in the same run, has filled: it finds it existing, or writes over it
HitsSiblingKey(k) ==
    /\ \/ events[k].op = "exists" /\ events[k].found
       \/ events[k].op = "write" /\ events[k].done
    /\ \E j \in 1..(k - 1) :
           /\ events[j].op = "write" /\ events[j].done
           /\ events[j].order_id = events[k].order_id
           /\ events[j].where = events[k].where
           /\ events[j].key = events[k].key

\* the part of C39 that holds: the scene flow, whose keys carry the date of
\* the one image of each week
SceneSiblingsKeepApart ==
    \A k \in 1..Len(events) :
        (events[k].op \in {"exists", "write"} /\ InSceneFlow(events[k].order_id))
            => ~HitsSiblingKey(k)

\* C39: within one order two distinct artifacts selected for transfer never
\* share a destination key: in a single run no artifact is skipped as
\* existing, or written over, because of a sibling artifact of its order, in
\* the scene flow and in the mosaic flow.
C39_SiblingKeysDistinct ==
    \A k \in 1..Len(events) :
        events[k].op \in {"exists", "write"} => ~HitsSiblingKey(k)

(***************************************************************************)
(* The loop of subdivide_date_range for any value of --max-months           *)
(***************************************************************************)

\* an iteration of the loop: a chunk was appended
Iterated == cPc = "loop" /\ Len(cChunks') = Len(cChunks) + 1

\* the part of C40 that holds: a positive max_months
PositiveMonthsAdvance ==
    [][(Iterated /\ cMonths >= 1) => DateLT(cCur, cCur')]_vars

\* C40: for every row with parsable dates and every integer value of
\* --max-months, positive, zero or negative, the loop variable current_start
\* of subdivide_date_range strictly increases on every iteration, so the
\* preparation of the orders terminates.
C40_CurrentStartIncreases ==
    [][Iterated => DateLT(cCur, cCur')]_vars

=============================================================================
